---- MODULE Spec2Model ----
(***************************************************************************)
(* A model of the SearXNG Tavily adapter: the engine selector              *)
(* (engine_selector.py), the retry/fallback orchestrator (main.py), the    *)
(* OAuth token cache and rate-limit governor of the reddit_api engine and  *)
(* the result adapters of the three SearXNG engines.                       *)
(*                                                                         *)
(* Python strings are sequences of characters.  A printable ASCII          *)
(* character is the one-character string itself; any other character is    *)
(* written "uXXXX" with its code point (Cyrillic "н" is "u043d").          *)
(***************************************************************************)
EXTENDS Integers, Sequences, FiniteSets, TLC

----------------------------------------------------------------------------
(* Strings.                                                                *)

\* str.lower(): the upper-case letters of the tables and queries below
\* (ASCII and Cyrillic) and their lower-case forms; every other character
\* of the model is left as it is.
UPPER == <<
    "A", "B", "C", "D", "E", "F", "G", "H", "I", "J", "K", "L", "M", "N", "O", "P", "Q", "R", "S",
    "T", "U", "V", "W", "X", "Y", "Z", "u0410", "u0411", "u0412", "u0413", "u0414", "u0415",
    "u0416", "u0417", "u0418", "u0419", "u041a", "u041b", "u041c", "u041d", "u041e", "u041f",
    "u0420", "u0421", "u0422", "u0423", "u0424", "u0425", "u0426", "u0427", "u0428", "u0429",
    "u042a", "u042b", "u042c", "u042d", "u042e", "u042f", "u0401"
>>
LOWER == <<
    "a", "b", "c", "d", "e", "f", "g", "h", "i", "j", "k", "l", "m", "n", "o", "p", "q", "r", "s",
    "t", "u", "v", "w", "x", "y", "z", "u0430", "u0431", "u0432", "u0433", "u0434", "u0435",
    "u0436", "u0437", "u0438", "u0439", "u043a", "u043b", "u043c", "u043d", "u043e", "u043f",
    "u0440", "u0441", "u0442", "u0443", "u0444", "u0445", "u0446", "u0447", "u0448", "u0449",
    "u044a", "u044b", "u044c", "u044d", "u044e", "u044f", "u0451"
>>

LowerChar(c) ==
    IF \E i \in 1..Len(UPPER) : UPPER[i] = c
    THEN LOWER[CHOOSE i \in 1..Len(UPPER) : UPPER[i] = c]
    ELSE c

Lower(s) == [i \in 1..Len(s) |-> LowerChar(s[i])]

\* Python's `sub in s` for strings.
Contains(s, sub) ==
    \E i \in 0..(Len(s) - Len(sub)) : SubSeq(s, i + 1, i + Len(sub)) = sub

----------------------------------------------------------------------------
(* engine_selector.py                                                      *)

\* "google,duckduckgo,brave,mojeek"
ENGINES_GENERAL == <<
    "g","o","o","g","l","e",",","d","u","c","k","d","u","c","k","g","o",",",
    "b","r","a","v","e",",","m","o","j","e","e","k"
>>

\* "google,arxiv,google scholar,wikipedia,wikidata"
ENGINES_ACADEMIC == <<
    "g","o","o","g","l","e",",","a","r","x","i","v",",","g","o","o","g","l",
    "e"," ","s","c","h","o","l","a","r",",","w","i","k","i","p","e","d","i",
    "a",",","w","i","k","i","d","a","t","a"
>>

\* "google,github,stackoverflow,duckduckgo,lobste.rs,mdn"
ENGINES_TECH == <<
    "g","o","o","g","l","e",",","g","i","t","h","u","b",",","s","t","a","c",
    "k","o","v","e","r","f","l","o","w",",","d","u","c","k","d","u","c","k",
    "g","o",",","l","o","b","s","t","e",".","r","s",",","m","d","n"
>>

\* "google,duckduckgo,brave,mojeek,crowdview,google play apps,apple app store"
ENGINES_PRODUCT == <<
    "g","o","o","g","l","e",",","d","u","c","k","d","u","c","k","g","o",",",
    "b","r","a","v","e",",","m","o","j","e","e","k",",","c","r","o","w","d",
    "v","i","e","w",",","g","o","o","g","l","e"," ","p","l","a","y"," ","a",
    "p","p","s",",","a","p","p","l","e"," ","a","p","p"," ","s","t","o","r",
    "e"
>>

\* "google,wikipedia,wikidata,duckduckgo"
ENGINES_REFERENCE == <<
    "g","o","o","g","l","e",",","w","i","k","i","p","e","d","i","a",",","w",
    "i","k","i","d","a","t","a",",","d","u","c","k","d","u","c","k","g","o"
>>

\* "google,google news,duckduckgo,brave,hackernews,lobste.rs"
ENGINES_NEWS == <<
    "g","o","o","g","l","e",",","g","o","o","g","l","e"," ","n","e","w","s",
    ",","d","u","c","k","d","u","c","k","g","o",",","b","r","a","v","e",",",
    "h","a","c","k","e","r","n","e","w","s",",","l","o","b","s","t","e",".",
    "r","s"
>>

\* "google,github,huggingface,arxiv,duckduckgo"
ENGINES_AI == <<
    "g","o","o","g","l","e",",","g","i","t","h","u","b",",","h","u","g","g",
    "i","n","g","f","a","c","e",",","a","r","x","i","v",",","d","u","c","k",
    "d","u","c","k","g","o"
>>

_ACADEMIC_KW == <<
    <<"r","e","s","e","a","r","c","h">>, <<"p","a","p","e","r">>, <<"s","t","u","d","y">>,
    <<"a","r","x","i","v">>, <<"j","o","u","r","n","a","l">>, <<"t","h","e","s","i","s">>,
    <<"c","i","t","a","t","i","o","n">>, <<"u043d","u0430","u0443","u0447","u043d">>,
    <<"u0438","u0441","u0441","u043b","u0435","u0434","u043e","u0432","u0430","u043d">>,
    <<"u0441","u0442","u0430","u0442","u044c","u044f">>,
    <<"u0434","u0438","u0441","u0441","u0435","u0440","u0442","u0430","u0446">>,
    <<"a","l","g","o","r","i","t","h","m">>,
    <<"n","e","u","r","a","l"," ","n","e","t","w","o","r","k">>,
    <<"t","r","a","n","s","f","o","r","m","e","r">>,
    <<"l","l","m"," ","a","r","c","h","i","t","e","c","t","u","r","e">>,
    <<"m","a","c","h","i","n","e"," ","l","e","a","r","n","i","n","g"," ","t","h","e","o","r","y">>,
    <<"d","e","e","p"," ","l","e","a","r","n","i","n","g">>
>>

_TECH_KW == <<
    <<"g","i","t","h","u","b">>, <<"s","t","a","c","k","o","v","e","r","f","l","o","w">>,
    <<"p","r","o","g","r","a","m","m","i","n","g">>, <<"c","o","d","e">>,
    <<"l","i","b","r","a","r","y">>, <<"f","r","a","m","e","w","o","r","k">>, <<"n","p","m">>,
    <<"p","i","p">>, <<"p","a","c","k","a","g","e">>, <<"a","p","i">>, <<"s","d","k">>,
    <<"c","l","i">>, <<"d","o","c","k","e","r">>, <<"p","y","t","h","o","n">>,
    <<"j","a","v","a","s","c","r","i","p","t">>, <<"t","y","p","e","s","c","r","i","p","t">>,
    <<"s","w","i","f","t">>, <<"k","o","t","l","i","n">>, <<"r","u","s","t">>, <<"g","o">>,
    <<"s","w","i","f","t","u","i">>, <<"r","e","a","c","t">>, <<"n","e","x","t","j","s">>,
    <<"f","a","s","t","a","p","i">>, <<"d","j","a","n","g","o">>,
    <<"u043f","u0440","u043e","u0433","u0440","u0430","u043c","u043c","u0438","u0440","u043e","u0432">>,
    <<"u043a","u043e","u0434">>,
    <<"u0431","u0438","u0431","u043b","u0438","u043e","u0442","u0435","u043a">>,
    <<"u0444","u0440","u0435","u0439","u043c","u0432","u043e","u0440","u043a">>
>>

_PRODUCT_KW == <<
    <<"a","p","p">>, <<"a","l","t","e","r","n","a","t","i","v","e">>,
    <<"c","o","m","p","e","t","i","t","o","r">>, <<"p","r","i","c","i","n","g">>,
    <<"r","e","v","i","e","w">>, <<"v","s">>, <<"s","a","a","s">>, <<"s","t","a","r","t","u","p">>,
    <<"p","r","o","d","u","c","t">>, <<"m","a","r","k","e","t">>, <<"l","a","n","d","i","n","g">>,
    <<"u043f","u0440","u0438","u043b","u043e","u0436","u0435","u043d","u0438">>,
    <<"u0430","u043d","u0430","u043b","u043e","u0433">>,
    <<"u043a","u043e","u043d","u043a","u0443","u0440","u0435","u043d","u0442">>,
    <<"u0446","u0435","u043d","u0430">>, <<"u043e","u0442","u0437","u044b","u0432">>,
    <<"b","e","s","t">>, <<"t","o","p">>, <<"c","o","m","p","a","r","i","s","o","n">>,
    <<"t","o","o","l","s"," ","f","o","r">>, <<"a","p","p"," ","s","t","o","r","e">>,
    <<"p","l","a","y"," ","s","t","o","r","e">>, <<"i","o","s">>, <<"a","n","d","r","o","i","d">>,
    <<"s","o","l","o","p","r","e","n","e","u","r">>,
    <<"i","n","d","i","e","h","a","c","k","e","r">>,
    <<"b","o","o","t","s","t","r","a","p","p","e","d">>, <<"m","v","p">>
>>

_REFERENCE_KW == <<
    <<"w","h","a","t"," ","i","s">>, <<"d","e","f","i","n","i","t","i","o","n">>,
    <<"m","e","a","n","i","n","g">>, <<"w","i","k","i","p","e","d","i","a">>,
    <<"h","i","s","t","o","r","y"," ","o","f">>, <<"b","i","o","g","r","a","p","h","y">>,
    <<"f","a","c","t","s">>, <<"p","o","p","u","l","a","t","i","o","n">>,
    <<"s","t","a","t","i","s","t","i","c","s">>,
    <<"u0447","u0442","u043e"," ","u0442","u0430","u043a","u043e","u0435">>,
    <<"u043e","u043f","u0440","u0435","u0434","u0435","u043b","u0435","u043d","u0438">>,
    <<"u0437","u043d","u0430","u0447","u0435","u043d","u0438">>,
    <<"u0431","u0438","u043e","u0433","u0440","u0430","u0444","u0438","u044f">>,
    <<"u0438","u0441","u0442","u043e","u0440","u0438","u044f">>,
    <<"u0444","u0430","u043a","u0442">>, <<"u0434","u0430","u043d","u043d","u044b","u0435">>,
    <<"u043d","u0430","u0441","u0435","u043b","u0435","u043d","u0438","u0435">>,
    <<"u0441","u0442","u0430","u0442","u0438","u0441","u0442","u0438","u043a">>
>>

_NEWS_KW == <<
    <<"n","e","w","s">>, <<"l","a","t","e","s","t">>, <<"u","p","d","a","t","e">>,
    <<"a","n","n","o","u","n","c","e","d">>, <<"l","a","u","n","c","h","e","d">>,
    <<"r","e","l","e","a","s","e","d">>, <<"t","r","e","n","d">>, <<"2","0","2","5">>,
    <<"2","0","2","6">>, <<"u043d","u043e","u0432","u043e","u0441","u0442">>,
    <<"u043f","u043e","u0441","u043b","u0435","u0434","u043d">>,
    <<"u043e","u0431","u043d","u043e","u0432","u043b","u0435","u043d">>,
    <<"u0437","u0430","u043f","u0443","u0441","u0442">>, <<"u0442","u0440","u0435","u043d","u0434">>
>>

_AI_KW == <<
    <<"h","u","g","g","i","n","g","f","a","c","e">>, <<"m","o","d","e","l">>, <<"l","l","m">>,
    <<"g","p","t">>, <<"c","l","a","u","d","e">>, <<"g","e","m","i","n","i">>,
    <<"o","l","l","a","m","a">>, <<"f","i","n","e","-","t","u","n","e">>,
    <<"f","i","n","e","t","u","n","e">>, <<"e","m","b","e","d","d","i","n","g">>, <<"r","a","g">>,
    <<"v","e","c","t","o","r">>, <<"a","i"," ","a","g","e","n","t">>,
    <<"a","i"," ","t","o","o","l">>, <<"l","a","n","g","c","h","a","i","n">>,
    <<"l","l","a","m","a","i","n","d","e","x">>,
    <<"u043d","u0435","u0439","u0440","u043e","u0441","u0435","u0442">>,
    <<"u043c","u043e","u0434","u0435","u043b">>,
    <<"u0438","u0438"," ","u0430","u0433","u0435","u043d","u0442">>
>>

\* The queries of the model: up to MaxWords of these words, joined by spaces.
Words == {
    <<"p","y","t","h","o","n">>, <<"p","r","o","g","r","a","m","m","i","n","g">>,
    <<"r","e","s","e","a","r","c","h">>, <<"d","j","a","n","g","o">>,
    <<"E","i","n","s","t","e","i","n">>, <<"b","i","o","g","r","a","p","h","y">>,
    <<"p","o","p","u","l","a","t","i","o","n">>, <<"s","t","a","t","i","s","t","i","c","s">>,
    <<"p","i","z","z","a">>, <<"a","l","g","o","r","i","t","h","m">>, <<"n","e","w","s">>,
    <<"b","e","s","t">>, <<"P","Y","T","H","O","N">>,
    <<"u041d","u0430","u0443","u0447","u043d","u0430","u044f">>, <<"s","t","o","r","a","g","e">>
}

\* _CATEGORIES: a dict, iterated in insertion order.
_CATEGORIES == <<
    [name |-> "academic",  keywords |-> _ACADEMIC_KW,  engines |-> ENGINES_ACADEMIC],
    [name |-> "tech",      keywords |-> _TECH_KW,      engines |-> ENGINES_TECH],
    [name |-> "product",   keywords |-> _PRODUCT_KW,   engines |-> ENGINES_PRODUCT],
    [name |-> "reference", keywords |-> _REFERENCE_KW, engines |-> ENGINES_REFERENCE],
    [name |-> "news",      keywords |-> _NEWS_KW,      engines |-> ENGINES_NEWS],
    [name |-> "ai",        keywords |-> _AI_KW,        engines |-> ENGINES_AI]
>>

\* score = sum(1 for kw in keywords if kw in q)
KeywordScore(keywords, q) ==
    Cardinality({i \in 1..Len(keywords) : Contains(q, keywords[i])})

\* A selector in which a later category of equal score replaces the best.
BeatsBest_OrEqual(score, best_score) == score >= best_score

\* Whether the running best is replaced by a category of this score.
BeatsBest(score, best_score) == score > best_score

\* The loop of get_smart_engines from the i-th category on; best_cat is an
\* index into _CATEGORIES, 0 for None.
RECURSIVE ScanCategories(_, _, _, _)
ScanCategories(q, i, best_cat, best_score) ==
    IF i > Len(_CATEGORIES)
    THEN [best_cat |-> best_cat, best_score |-> best_score]
    ELSE LET score == KeywordScore(_CATEGORIES[i].keywords, q)
         IN  IF BeatsBest(score, best_score)
             THEN ScanCategories(q, i + 1, i, score)
             ELSE ScanCategories(q, i + 1, best_cat, best_score)

\* A selector whose running best starts below every score, so that the first
\* category wins a query no keyword occurs in.
get_smart_engines_NoDefault(query) ==
    LET best == ScanCategories(Lower(query), 1, 0, -1)
    IN  IF best.best_cat = 0
        THEN ENGINES_GENERAL
        ELSE _CATEGORIES[best.best_cat].engines

get_smart_engines(query) ==
    LET q    == Lower(query)
        best == ScanCategories(q, 1, 0, 0)
    IN  IF best.best_score = 0 \/ best.best_cat = 0
        THEN ENGINES_GENERAL
        ELSE _CATEGORIES[best.best_cat].engines

\* The number of words of a query of the model.
MaxWords == 2

RECURSIVE JoinWords(_)
JoinWords(ws) ==
    IF Len(ws) = 0 THEN <<>>
    ELSE IF Len(ws) = 1 THEN ws[1]
    ELSE ws[1] \o <<" ">> \o JoinWords(Tail(ws))

Queries == {JoinWords(ws) : ws \in UNION {[1..n -> Words] : n \in 0..MaxWords}}

\* The scientific query of test_smart_engines.py: "quantum research paper".
\* (Its other three queries are made of two of the Words.)
QUANTUM_RESEARCH_PAPER ==
    JoinWords(<<<<"q","u","a","n","t","u","m">>,
                <<"r","e","s","e","a","r","c","h">>,
                <<"p","a","p","e","r">>>>)
TestQueries == {QUANTUM_RESEARCH_PAPER}

VARIABLES
    sel_pc,       \* "call" before get_smart_engines has run, "done" after
    sel_query,    \* its argument
    sel_engines   \* its result

selVars == <<sel_pc, sel_query, sel_engines>>

SelInit ==
    /\ sel_pc = "call"
    /\ sel_query \in Queries \cup TestQueries
    /\ sel_engines = <<>>

SelOff == sel_pc = "off" /\ sel_query = <<>> /\ sel_engines = <<>>

SelectEngines ==
    /\ sel_pc = "call"
    /\ sel_engines' = get_smart_engines(sel_query)
    /\ sel_pc' = "done"
    /\ UNCHANGED sel_query

\* What the claims about the selector speak of: the number of keywords of
\* each category, in table order, that occur in the lowercased query.
CategoryIndexes == 1..Len(_CATEGORIES)

OccurringKeywords(i, q) ==
    {k \in 1..Len(_CATEGORIES[i].keywords) : Contains(q, _CATEGORIES[i].keywords[k])}

RECURSIVE ScoresFrom(_, _)
ScoresFrom(i, q) ==
    IF i > Len(_CATEGORIES) THEN <<>>
    ELSE <<Cardinality(OccurringKeywords(i, q))>> \o ScoresFrom(i + 1, q)

CategoryScores(query) == ScoresFrom(1, Lower(query))

GreatestScore(scores) ==
    CHOOSE m \in {scores[i] : i \in CategoryIndexes} :
        \A i \in CategoryIndexes : scores[i] <= m

\* The first category, in table order, whose score is the greatest.
FirstGreatest(scores) ==
    CHOOSE i \in CategoryIndexes :
        /\ scores[i] = GreatestScore(scores)
        /\ \A j \in 1..(i - 1) : scores[j] < GreatestScore(scores)

\* "python programming"
PythonProgramming ==
    <<"p","y","t","h","o","n"," ","p","r","o","g","r","a","m","m","i","n","g">>

\* C8: get_smart_engines returns the engine set of the category whose score is
\* greatest, the first such category in table order when several tie; a query
\* matching keywords of exactly one category gets that category's set, not the
\* default, and "python programming" gets the tech set.
C8_StrictGreatestFirstWins ==
    sel_pc = "done" =>
        \A scores \in {CategoryScores(sel_query)} :
            /\ GreatestScore(scores) >= 1 =>
                   sel_engines = _CATEGORIES[FirstGreatest(scores)].engines
            /\ \A i \in CategoryIndexes :
                   ( /\ scores[i] >= 1
                     /\ \A j \in CategoryIndexes \ {i} : scores[j] = 0 )
                   => /\ sel_engines = _CATEGORIES[i].engines
                      /\ sel_engines # ENGINES_GENERAL
            /\ sel_query = PythonProgramming => sel_engines = ENGINES_TECH

\* C8 witness: two categories tie for the greatest score and the earlier one
\* in table order was returned.
C8_Witness ==
    /\ sel_pc = "done"
    /\ \E scores \in {CategoryScores(sel_query)} :
           \E i, j \in CategoryIndexes :
               /\ i < j
               /\ scores[i] = GreatestScore(scores)
               /\ scores[j] = GreatestScore(scores)
               /\ scores[i] >= 1
               /\ sel_engines = _CATEGORIES[i].engines
               /\ sel_engines # _CATEGORIES[j].engines

\* C9: a query in which no category keyword occurs, the empty query included,
\* gets the default set; a non-default set is returned only when some category
\* scores at least 1.
C9_DefaultWhenNoKeyword ==
    sel_pc = "done" =>
        \A scores \in {CategoryScores(sel_query)} :
            /\ (\A i \in CategoryIndexes : scores[i] = 0)
                   => sel_engines = ENGINES_GENERAL
            /\ sel_query = <<>> => sel_engines = ENGINES_GENERAL
            /\ sel_engines # ENGINES_GENERAL
                   => \E i \in CategoryIndexes : scores[i] >= 1

\* C9 witness: a non-empty query without any keyword got the default set.
C9_Witness ==
    /\ sel_pc = "done"
    /\ sel_query # <<>>
    /\ CategoryScores(sel_query) = [i \in CategoryIndexes |-> 0]
    /\ sel_engines = ENGINES_GENERAL

----------------------------------------------------------------------------
(* main.py: _rewrite_reddit_to_google and perform_search_with_retry        *)

\* Python's None where a string may stand: a sequence that is no string of
\* characters.
None == <<"None">>

\* The truth value of a value of type `str | None`.
Truthy(s) == s # None /\ s # <<>>

\* The characters str.strip() strips: those str.isspace() holds for. A
\* character outside printable ASCII is named by its code point.
Whitespace == {
    " ", "u0009", "u000a", "u000b", "u000c", "u000d",
    "u001c", "u001d", "u001e", "u001f", "u0085", "u00a0", "u1680",
    "u2000", "u2001", "u2002", "u2003", "u2004", "u2005", "u2006", "u2007",
    "u2008", "u2009", "u200a", "u2028", "u2029", "u202f", "u205f", "u3000"}

RECURSIVE LStrip(_)
LStrip(s) == IF s # <<>> /\ s[1] \in Whitespace THEN LStrip(Tail(s)) ELSE s

RECURSIVE RStrip(_)
RStrip(s) ==
    IF s # <<>> /\ s[Len(s)] \in Whitespace
    THEN RStrip(SubSeq(s, 1, Len(s) - 1))
    ELSE s

\* str.strip()
Strip(s) == RStrip(LStrip(s))

\* str.split(sep) for a separator of one character: the list of the pieces.
RECURSIVE Split(_, _)
Split(s, sep) ==
    IF \E i \in 1..Len(s) : s[i] = sep
    THEN LET i == CHOOSE k \in 1..Len(s) :
                      s[k] = sep /\ \A j \in 1..(k - 1) : s[j] # sep
         IN  <<SubSeq(s, 1, i - 1)>> \o Split(SubSeq(s, i + 1, Len(s)), sep)
    ELSE <<s>>

\* sep.join(list)
RECURSIVE Join(_, _)
Join(list, sep) ==
    IF list = <<>> THEN <<>>
    ELSE IF Len(list) = 1 THEN list[1]
    ELSE list[1] \o <<sep>> \o Join(Tail(list), sep)

\* x in list
InList(list, x) == \E i \in 1..Len(list) : list[i] = x

REDDIT == <<"r","e","d","d","i","t">>
GOOGLE == <<"g","o","o","g","l","e">>
\* "site:reddit.com"
SITE_REDDIT == <<"s","i","t","e",":","r","e","d","d","i","t",".","c","o","m">>

\* [e.strip() for e in engines.split(",")]
StrippedEngineList(engines) ==
    LET pieces == Split(engines, ",")
    IN  [i \in 1..Len(pieces) |-> Strip(pieces[i])]

\* A rewrite that prepends "site:reddit.com" to every query.
RewriteReddit_AlwaysPrepends(query, engines) ==
    IF ~Truthy(engines) THEN [query |-> query, engines |-> engines]
    ELSE LET engine_list == StrippedEngineList(engines)
         IN  IF ~InList(engine_list, REDDIT)
             THEN [query |-> query, engines |-> engines]
             ELSE LET without == SelectSeq(engine_list, LAMBDA e : e # REDDIT)
                      final   == IF InList(without, GOOGLE)
                                 THEN without
                                 ELSE <<GOOGLE>> \o without
                  IN  [query   |-> SITE_REDDIT \o <<" ">> \o query,
                       engines |-> Join(final, ",")]

\* The tuple (query, engines) that _rewrite_reddit_to_google returns.
_rewrite_reddit_to_google(query, engines) ==
    IF ~Truthy(engines) THEN [query |-> query, engines |-> engines]
    ELSE LET engine_list == StrippedEngineList(engines)
         IN  IF ~InList(engine_list, REDDIT)
             THEN [query |-> query, engines |-> engines]
             ELSE LET without == SelectSeq(engine_list, LAMBDA e : e # REDDIT)
                      final   == IF InList(without, GOOGLE)
                                 THEN without
                                 ELSE <<GOOGLE>> \o without
                  IN  [query   |-> IF Contains(query, SITE_REDDIT)
                                   THEN query
                                   ELSE SITE_REDDIT \o <<" ">> \o query,
                       engines |-> Join(final, ",")]

USER_AGENTS == <<
    "Mozilla/5.0 (Windows NT 10.0; Win64; x64) AppleWebKit/537.36 (KHTML, like Gecko) Chrome/91.0.4472.124 Safari/537.36",
    "Mozilla/5.0 (Macintosh; Intel Mac OS X 10_15_7) AppleWebKit/537.36 (KHTML, like Gecko) Chrome/91.0.4472.124 Safari/537.36",
    "Mozilla/5.0 (X11; Linux x86_64) AppleWebKit/537.36 (KHTML, like Gecko) Chrome/91.0.4472.124 Safari/537.36",
    "Mozilla/5.0 (Windows NT 10.0; Win64; x64; rv:89.0) Gecko/20100101 Firefox/89.0",
    "Mozilla/5.0 (Macintosh; Intel Mac OS X 10.15; rv:89.0) Gecko/20100101 Firefox/89.0",
    "Mozilla/5.0 (compatible; TavilyBot/1.0)",
    "Mozilla/5.0 (compatible; SearchBot/1.0)"
>>

ENGINE_FALLBACKS == <<
    \* "google,duckduckgo,brave"
    <<"g","o","o","g","l","e",",","d","u","c","k","d","u","c","k","g","o",",","b","r","a","v","e">>,
    \* "google,brave,wikipedia"
    <<"g","o","o","g","l","e",",","b","r","a","v","e",",","w","i","k","i","p","e","d","i","a">>,
    \* "duckduckgo,brave,wikipedia"
    <<"d","u","c","k","d","u","c","k","g","o",",","b","r","a","v","e",",",
      "w","i","k","i","p","e","d","i","a">>,
    \* "google,duckduckgo,wikipedia,wikidata"
    <<"g","o","o","g","l","e",",","d","u","c","k","d","u","c","k","g","o",",",
      "w","i","k","i","p","e","d","i","a",",","w","i","k","i","d","a","t","a">>
>>

\* A fallback table read with the attempt index itself.
FallbackEngines_OffByOne(attempt) ==
    ENGINE_FALLBACKS[(attempt % Len(ENGINE_FALLBACKS)) + 1]

\* ENGINE_FALLBACKS[(attempt - 1) % len(ENGINE_FALLBACKS)]; the table of the
\* model is indexed from 1.
FallbackEngines(attempt) ==
    ENGINE_FALLBACKS[((attempt - 1) % Len(ENGINE_FALLBACKS)) + 1]

\* The engines of an attempt (lines 174-182).
AttemptEngines(attempt, query, user_engines) ==
    IF Truthy(user_engines) THEN user_engines
    ELSE IF attempt = 0 THEN get_smart_engines(query)
    ELSE FallbackEngines(attempt)

\* searxng_params with the key categories whoever chose the engines.
SearxngParams_AlwaysCategories(query, engines, user_engines) ==
    [q |-> query, format |-> "json", engines |-> engines, pageno |-> 1,
     language |-> "auto", safesearch |-> 1, categories |-> "general"]

\* searxng_params (lines 191-203): a dict, with the key categories only when
\* the engines are not the user's.
SearxngParams(query, engines, user_engines) ==
    LET base == [q |-> query, format |-> "json", engines |-> engines,
                 pageno |-> 1, language |-> "auto", safesearch |-> 1]
    IN  IF ~Truthy(user_engines)
        THEN [k \in DOMAIN base \cup {"categories"} |->
                 IF k = "categories" THEN "general" ELSE base[k]]
        ELSE base

\* dict.get(key, default)
Get(d, key, default) == IF key \in DOMAIN d THEN d[key] ELSE default

\* A success that needs more than one result.
HasResults_MoreThanOne(data) == Len(Get(data, "results", <<>>)) > 1

\* results = data.get("results", []); if results: ...
HasResults(data) == Get(data, "results", <<>>) # <<>>

\* The module aiohttp (3.x) has no attribute TimeoutError.
AiohttpHasTimeoutError == FALSE

\* What the try statement of lines 219-249 does with an exception raised in
\* its body: the except clauses are tried in order, and matching the first
\* evaluates the expression aiohttp.TimeoutError, which raises AttributeError
\* out of the statement; were the attribute there, both clauses would log the
\* exception and the loop would go on.
ExceptClauses(exception) ==
    IF AiohttpHasTimeoutError THEN "logged" ELSE "AttributeError"

\* The greatest max_retries of the model (MAX_SEARCH_RETRIES is any integer).
MaxRetries == 6

\* The queries the orchestrator is called with:
\* "pizza", "python programming", "site:reddit.com pizza".
RetryQueries == {
    <<"p","i","z","z","a">>,
    <<"p","y","t","h","o","n"," ","p","r","o","g","r","a","m","m","i","n","g">>,
    <<"s","i","t","e",":","r","e","d","d","i","t",".","c","o","m"," ","p","i","z","z","a">>
}

\* The engines argument: None, "", "google,wikipedia", "reddit",
\* "brave, reddit", "brave,\u00a0reddit" (a no-break space), "reddit,google",
\* "brave,brave".
UserEngines == {
    None,
    <<>>,
    <<"g","o","o","g","l","e",",","w","i","k","i","p","e","d","i","a">>,
    <<"r","e","d","d","i","t">>,
    <<"b","r","a","v","e",","," ","r","e","d","d","i","t">>,
    <<"b","r","a","v","e",",","u00a0","r","e","d","d","i","t">>,
    <<"r","e","d","d","i","t",",","g","o","o","g","l","e">>,
    <<"b","r","a","v","e",",","b","r","a","v","e">>
}

\* random.randint(1, 254): the ends of the range.
IpOctets == {1, 254}

\* random.uniform(1, 3), in seconds: the ends of the range and a value between.
Delays == {1, 2, 3}

\* The status codes of a response that is not 200.
ErrorStatuses == {429, 500}

ResultA == [url |-> "https://a.example/1", title |-> "A", content |-> "a"]
ResultB == [url |-> "https://b.example/2", title |-> "B", content |-> "b"]

\* The JSON bodies of the aggregator: with one result, with two results and
\* further keys, with an empty result list, without the key results.
Bodies == {
    [results |-> <<ResultA>>],
    [results |-> <<ResultA, ResultB>>, query |-> "q", number_of_results |-> 2],
    [results |-> <<>>, query |-> "q"],
    [query |-> "q", unresponsive_engines |-> <<"google">>]
}

\* What a probe ends with: an HTTP response, a timeout, a transport error.
Outcomes ==
    {[kind |-> "response", status |-> 200, body |-> b] : b \in Bodies}
    \cup {[kind |-> "response", status |-> s, body |-> <<>>] : s \in ErrorStatuses}
    \cup {[kind |-> k, status |-> 0, body |-> <<>>] : k \in {"timeout", "error"}}

VARIABLES
    pc,             \* where perform_search_with_retry stands
    arg_query,      \* the arguments of the call, as the caller gave them
    arg_engines,
    max_retries,
    query,          \* the locals of the call
    user_engines,
    attempt,
    engines,
    searxng_params,
    headers,        \* (headers and delay are unbound again, <<>> and 0,
    delay,          \*  once the probe they were made for has ended)
    events,         \* the delays and probes of the call so far and what
                    \* each probe was classified as, in order
    probes,         \* the request of each probe: attempt and searxng_params
    outcome,        \* what the attempt's probe ended with
    only_empty,     \* every probe so far ended with HTTP 200 and no results
    all_failed,     \* every probe so far ended with another status, a
                    \* timeout or a transport error
    ret,            \* the payload returned
    exc             \* the exception raised out of the call

retryVars == <<pc, arg_query, arg_engines, max_retries, query, user_engines,
               attempt, engines, searxng_params, headers, delay, events,
               probes, outcome, only_empty, all_failed, ret, exc>>

NoOutcome == [kind |-> "none", status |-> 0, body |-> <<>>]

RetryLocals ==
    /\ query = <<>> /\ user_engines = None /\ attempt = 0 /\ engines = None
    /\ searxng_params = <<>> /\ headers = <<>> /\ delay = 0
    /\ events = <<>> /\ probes = <<>> /\ outcome = NoOutcome
    /\ only_empty = TRUE /\ all_failed = TRUE /\ ret = <<>> /\ exc = "none"

RetryInit ==
    /\ pc = "entry"
    /\ arg_query \in RetryQueries
    /\ arg_engines \in UserEngines
    /\ max_retries \in -1..MaxRetries
    /\ RetryLocals

RetryOff ==
    /\ pc = "off" /\ arg_query = <<>> /\ arg_engines = None /\ max_retries = 0
    /\ RetryLocals

\* Line 170.
Enter ==
    /\ pc = "entry"
    /\ LET rewritten == _rewrite_reddit_to_google(arg_query, arg_engines)
       IN  /\ query' = rewritten.query
           /\ user_engines' = rewritten.engines
    /\ attempt' = 0
    /\ pc' = "loop"
    /\ UNCHANGED <<arg_query, arg_engines, max_retries, engines, searxng_params,
                   headers, delay, events, probes, outcome, only_empty,
                   all_failed, ret, exc>>

\* An attempt that waits before the first probe as before the others.
BeginAttempt_SleepsFirst ==
    /\ pc = "loop"
    /\ attempt < max_retries
    /\ \E ua \in 1..Len(USER_AGENTS), xff \in IpOctets, real \in IpOctets :
         /\ engines' = AttemptEngines(attempt, query, user_engines)
         /\ searxng_params' = SearxngParams(query, engines', user_engines)
         /\ headers' = [user_agent |-> USER_AGENTS[ua], x_forwarded_for |-> xff,
                        x_real_ip |-> real]
    /\ outcome' = NoOutcome
    /\ pc' = "sleep"
    /\ UNCHANGED <<arg_query, arg_engines, max_retries, query, user_engines,
                   attempt, delay, events, probes, only_empty, all_failed,
                   ret, exc>>

\* Lines 172-217: the next attempt's engines, User-Agent, parameters and
\* headers.
BeginAttempt ==
    /\ pc = "loop"
    /\ attempt < max_retries
    /\ \E ua \in 1..Len(USER_AGENTS), xff \in IpOctets, real \in IpOctets :
         /\ engines' = AttemptEngines(attempt, query, user_engines)
         /\ searxng_params' = SearxngParams(query, engines', user_engines)
         /\ headers' = [user_agent |-> USER_AGENTS[ua], x_forwarded_for |-> xff,
                        x_real_ip |-> real]
    /\ outcome' = NoOutcome
    /\ pc' = IF attempt > 0 THEN "sleep" ELSE "post"
    /\ UNCHANGED <<arg_query, arg_engines, max_retries, query, user_engines,
                   attempt, delay, events, probes, only_empty, all_failed,
                   ret, exc>>

\* Lines 221-224.
Sleep ==
    /\ pc = "sleep"
    /\ \E d \in Delays : delay' = d
    /\ events' = Append(events, "delay")
    /\ pc' = "post"
    /\ UNCHANGED <<arg_query, arg_engines, max_retries, query, user_engines,
                   attempt, engines, searxng_params, headers, probes, outcome,
                   only_empty, all_failed, ret, exc>>

\* Lines 226-232: the probe goes out.
Post ==
    /\ pc = "post"
    /\ probes' = Append(probes, [attempt |-> attempt, params |-> searxng_params])
    /\ events' = Append(events, "probe")
    /\ pc' = "await"
    /\ UNCHANGED <<arg_query, arg_engines, max_retries, query, user_engines,
                   attempt, engines, searxng_params, headers, delay, outcome,
                   only_empty, all_failed, ret, exc>>

\* Lines 233-249: the probe's outcome is classified.
Receive ==
    /\ pc = "await"
    /\ \E o \in Outcomes :
         /\ outcome' = o
         /\ IF o.kind = "response"
            THEN IF o.status = 200 /\ HasResults(o.body)
                 THEN /\ pc' = "returned"
                      /\ ret' = o.body
                      /\ all_failed' = FALSE
                      /\ UNCHANGED <<attempt, only_empty, exc>>
                 ELSE /\ pc' = "loop"
                      /\ attempt' = attempt + 1
                      /\ only_empty' = (only_empty /\ o.status = 200)
                      /\ all_failed' = (all_failed /\ o.status # 200)
                      /\ UNCHANGED <<ret, exc>>
            ELSE IF ExceptClauses(o.kind) = "logged"
                 THEN /\ pc' = "loop"
                      /\ attempt' = attempt + 1
                      /\ only_empty' = FALSE
                      /\ UNCHANGED <<all_failed, ret, exc>>
                 ELSE /\ pc' = "raised"
                      /\ exc' = ExceptClauses(o.kind)
                      /\ only_empty' = FALSE
                      /\ UNCHANGED <<attempt, all_failed, ret>>
    /\ events' = Append(events, IF pc' = "returned" THEN "success"
                                ELSE "failure")
    /\ headers' = <<>>
    /\ delay' = 0
    /\ UNCHANGED <<arg_query, arg_engines, max_retries, query, user_engines,
                   engines, searxng_params, probes>>

\* Lines 251-253: every attempt is used up.
Exhausted ==
    /\ pc = "loop"
    /\ ~(attempt < max_retries)
    /\ ret' = [results |-> <<>>]
    /\ pc' = "returned"
    /\ UNCHANGED <<arg_query, arg_engines, max_retries, query, user_engines,
                   attempt, engines, searxng_params, headers, delay, events,
                   probes, outcome, only_empty, all_failed, exc>>

\* What the claims about the orchestrator speak of.
AtLeastOneResult(o) ==
    /\ o.kind = "response"
    /\ o.status = 200
    /\ "results" \in DOMAIN o.body
    /\ Len(o.body.results) >= 1

ProbeCount == Cardinality({i \in 1..Len(events) : events[i] = "probe"})

\* C1: when the attempts 0..k-1 end with HTTP 200 and no results and attempt
\* k < max_retries with HTTP 200 and at least one result, the call has issued
\* exactly k+1 probes, has returned (so that no probe follows) and its result
\* is attempt k's payload, unchanged.
C1_FirstNonEmptyAttemptReturned ==
    (only_empty /\ AtLeastOneResult(outcome)) =>
        /\ pc = "returned"
        /\ exc = "none"
        /\ attempt < max_retries
        /\ ProbeCount = attempt + 1
        /\ Len(probes) = attempt + 1
        /\ \A i \in 1..Len(probes) : probes[i].attempt = i - 1
        /\ ret = outcome.body

\* C1 witness: two empty attempts, then a third with results, returned.
C1_Witness ==
    /\ pc = "returned"
    /\ only_empty
    /\ AtLeastOneResult(outcome)
    /\ attempt = 2
    /\ Len(probes) = 3
    /\ ret = outcome.body
    /\ Len(ret.results) = 2

\* C2: whatever non-success outcomes the attempts have (HTTP 200 without
\* results, a status other than 200, a timeout, a transport error), nothing is
\* raised out of the call, and it returns only after exactly max_retries
\* probes, with zero results.
C2_ExhaustionReturnsEmptyNeverRaises ==
    ~AtLeastOneResult(outcome) =>
        /\ pc # "raised"
        /\ exc = "none"
        /\ pc = "returned" =>
               /\ ProbeCount = (IF max_retries > 0 THEN max_retries ELSE 0)
               /\ ret = [results |-> <<>>]

\* The selector's output for each query, and what _rewrite_reddit_to_google
\* makes of each explicit engine list.
SelectorOutput == {<<q, get_smart_engines(q)>> : q \in RetryQueries}

ExplicitList == arg_engines # None /\ arg_engines # <<>>

ExplicitLists == {e \in UserEngines : e # None /\ e # <<>>}

ListsNamingReddit ==
    {e \in ExplicitLists :
        \E i \in 1..Len(Split(e, ",")) : Strip(Split(e, ",")[i]) = REDDIT}

RewrittenLists ==
    {<<q, e, _rewrite_reddit_to_google(q, e).engines>> :
        q \in RetryQueries, e \in ExplicitLists}

\* The fallback table entry (attempt - 1) mod len(table), for attempt > 0.
IsFallbackEntry(p) ==
    \E n \in 0..(Len(ENGINE_FALLBACKS) - 1) :
        /\ (p.attempt - 1) % Len(ENGINE_FALLBACKS) = n
        /\ p.params.engines = ENGINE_FALLBACKS[n + 1]

\* The probe of attempt 0 has just been posted.
FirstProbePosted == pc = "await" /\ Len(probes) = 1

\* C3 as stated: with an explicit engine list every probe uses that list, as
\* the caller gave it, and never a fallback entry; without one, attempt 0
\* uses the selector's output and attempt i > 0 the fallback entry
\* (i - 1) mod len(table).
C3_AsStated_CallersListUsed ==
    /\ \A i \in 1..Len(probes) : probes[i].attempt = i - 1
    /\ ExplicitList =>
           \A i \in 1..Len(probes) : probes[i].params.engines = arg_engines
    /\ ~ExplicitList =>
           \A i \in 2..Len(probes) : IsFallbackEntry(probes[i])
    /\ (FirstProbePosted /\ ~ExplicitList) =>
           <<arg_query, probes[1].params.engines>> \in SelectorOutput

\* C3, amended: the probes are those of the attempts 0, 1, 2, ... in order.
\* With an explicit engine list every probe uses one and the same list, the
\* one the probe of attempt 0 was posted with: the caller's list as
\* _rewrite_reddit_to_google returns it, which is the caller's own list
\* unless that names reddit. Without an explicit list the probe of attempt 0
\* is posted with the selector's output for the query and the probe of
\* attempt i > 0 with the fallback entry (i - 1) mod len(table), cyclically.
C3_EnginesByAttemptIndex ==
    /\ \A i \in 1..Len(probes) : probes[i].attempt = i - 1
    /\ ExplicitList =>
           \A i \in 1..Len(probes) :
               /\ probes[i].params.engines = probes[1].params.engines
               /\ arg_engines \notin ListsNamingReddit
                      => probes[i].params.engines = arg_engines
    /\ ~ExplicitList =>
           \A i \in 2..Len(probes) : IsFallbackEntry(probes[i])
    /\ FirstProbePosted =>
           IF ExplicitList
           THEN <<arg_query, arg_engines, probes[1].params.engines>>
                    \in RewrittenLists
           ELSE <<arg_query, probes[1].params.engines>> \in SelectorOutput

\* C3 witness: a call without an explicit list reached attempt 5, whose probe
\* used the first fallback entry again, after the four entries in order.
C3_Witness ==
    /\ ~ExplicitList
    /\ Len(probes) = 6
    /\ probes[6].attempt = 5
    /\ probes[6].params.engines = ENGINE_FALLBACKS[1]
    /\ \A i \in 2..5 : probes[i].params.engines = ENGINE_FALLBACKS[i - 1]
    /\ probes[1].params.engines = ENGINES_TECH

----------------------------------------------------------------------------
(* searxng/engines: the values the result adapters work on                 *)

\* A decoded JSON value, or a Python value an adapter builds from one, with
\* its type: null/None, str (a sequence of characters), int, list, dict (a
\* record of values), datetime.
JNull == [t |-> "null"]
JStr(s) == [t |-> "str", v |-> s]
JInt(n) == [t |-> "int", v |-> n]
JList(l) == [t |-> "list", v |-> l]
JDict(r) == [t |-> "dict", v |-> r]
PyDate(ts) == [t |-> "datetime", v |-> ts]

\* A truth test that takes None for true.
Bool_NoneIsTrue(v) ==
    CASE v.t = "null" -> TRUE
      [] v.t = "str" -> v.v # <<>>
      [] v.t = "int" -> v.v # 0
      [] v.t = "list" -> v.v # <<>>
      [] v.t = "dict" -> DOMAIN v.v # {}
      [] OTHER -> TRUE

\* bool(v)
Bool(v) ==
    CASE v.t = "null" -> FALSE
      [] v.t = "str" -> v.v # <<>>
      [] v.t = "int" -> v.v # 0
      [] v.t = "list" -> v.v # <<>>
      [] v.t = "dict" -> DOMAIN v.v # {}
      [] OTHER -> TRUE

\* d.get(key, default) of a dict d
DictGet(d, key, default) == IF key \in DOMAIN d.v THEN d.v[key] ELSE default

\* d[key] = val
Put(d, key, val) ==
    [k \in DOMAIN d \cup {key} |-> IF k = key THEN val ELSE d[k]]

DIGITS == <<"0", "1", "2", "3", "4", "5", "6", "7", "8", "9">>

\* str(n) of an int n
RECURSIVE FormatNat(_)
FormatNat(n) ==
    IF n < 10 THEN <<DIGITS[n + 1]>>
    ELSE FormatNat(n \div 10) \o <<DIGITS[(n % 10) + 1]>>

FormatInt(n) == IF n < 0 THEN <<"-">> \o FormatNat(0 - n) ELSE FormatNat(n)

\* What an f-string puts for {v}, for v a str, an int or None.
Format(v) ==
    CASE v.t = "str" -> v.v
      [] v.t = "int" -> FormatInt(v.v)
      [] v.t = "null" -> <<"N", "o", "n", "e">>

\* The first index of s at or after `from` whose character is in `chars`,
\* Len(s) + 1 when there is none.
FirstOf(s, chars, from) ==
    IF \E i \in from..Len(s) : s[i] \in chars
    THEN CHOOSE i \in from..Len(s) :
             s[i] \in chars /\ \A j \in from..(i - 1) : s[j] \notin chars
    ELSE Len(s) + 1

SCHEME_CHARS ==
    {UPPER[i] : i \in 1..26} \cup {LOWER[i] : i \in 1..26}
        \cup {DIGITS[i] : i \in 1..10} \cup {"+", "-", "."}

ASCII_ALPHA == {UPPER[i] : i \in 1..26} \cup {LOWER[i] : i \in 1..26}

HEX == <<"0", "1", "2", "3", "4", "5", "6", "7", "8", "9",
        "a", "b", "c", "d", "e", "f">>

RECURSIVE HexDigits(_)
HexDigits(n) ==
    IF n < 16 THEN HEX[n + 1]
    ELSE HexDigits(n \div 16) \o HEX[(n % 16) + 1]

\* The name of the character of code point n, outside printable ASCII.
CharName(n) ==
    "u" \o (IF n < 16 THEN "000" ELSE IF n < 256 THEN "00"
            ELSE IF n < 4096 THEN "0" ELSE "") \o HexDigits(n)

\* _WHATWG_C0_CONTROL_OR_SPACE: the characters up to U+001F and the space.
C0_CONTROL_OR_SPACE == {CharName(n) : n \in 0..31} \cup {" "}

\* _UNSAFE_URL_BYTES_TO_REMOVE: tab, carriage return and line feed.
UNSAFE_URL_BYTES_TO_REMOVE == {"u0009", "u000d", "u000a"}

RECURSIVE LStripOf(_, _)
LStripOf(s, chars) ==
    IF s # <<>> /\ s[1] \in chars THEN LStripOf(Tail(s), chars) ELSE s

\* urllib.parse.urlparse(url) of a str: the exception raised, or the netloc
\* and the path of the result. The leading control characters and spaces
\* are stripped and every tab, carriage return and line feed is removed; a
\* leading scheme is split off at the first ":", the netloc follows a
\* leading "//" up to the next "/", "?" or "#", the path ends at the first
\* "?" or "#". A netloc with "[" and no "]", or "]" and no "[", raises
\* ValueError. The strings are those of ASCII characters without ";" whose
\* netloc does not hold both "[" and "]" (the host between the brackets is
\* not examined).
urlparse(url) ==
    LET clean == SelectSeq(LStripOf(url, C0_CONTROL_OR_SPACE),
                           LAMBDA c : c \notin UNSAFE_URL_BYTES_TO_REMOVE)
        colon == FirstOf(clean, {":"}, 1)
        has_scheme ==
            /\ colon > 1
            /\ colon <= Len(clean)
            /\ clean[1] \in ASCII_ALPHA
            /\ \A i \in 1..(colon - 1) : clean[i] \in SCHEME_CHARS
        rest == IF has_scheme
                THEN SubSeq(clean, colon + 1, Len(clean)) ELSE clean
        has_netloc == Len(rest) >= 2 /\ rest[1] = "/" /\ rest[2] = "/"
        delim == FirstOf(rest, {"/", "?", "#"}, 3)
        netloc == IF has_netloc THEN SubSeq(rest, 3, delim - 1) ELSE <<>>
        after == IF has_netloc THEN SubSeq(rest, delim, Len(rest)) ELSE rest
        opened == \E i \in 1..Len(netloc) : netloc[i] = "["
        closed == \E i \in 1..Len(netloc) : netloc[i] = "]"
    IN  IF opened # closed
        THEN [exc |-> "ValueError", netloc |-> <<>>, path |-> <<>>]
        ELSE [exc    |-> "none",
              netloc |-> netloc,
              path   |-> SubSeq(after, 1, FirstOf(after, {"?", "#"}, 1) - 1)]

\* ('self', 'default', 'nsfw', 'spoiler', '')
THUMBNAIL_SENTINELS == {
    <<"s","e","l","f">>, <<"d","e","f","a","u","l","t">>,
    <<"n","s","f","w">>, <<"s","p","o","i","l","e","r">>, <<>>}

\* What a call of an adapter comes to: the exception it raises ("none" when
\* it returns) and the list it returns.
Returns(results) == [exc |-> "none", results |-> results]
Raises(exception) == [exc |-> exception, results |-> <<>>]

\* What the handling of one post comes to: the exception raised, or the
\* record to append to `list` ("none": the post is skipped).
Skipped == [exc |-> "none", list |-> "none"]
Appended(list, record) == [exc |-> "none", list |-> list, record |-> record]
PostRaises(exception) == [exc |-> exception, list |-> "none"]

\* A cut that keeps the last 500 characters.
Truncated_KeepsTail(content) ==
    IF Len(content) > 500
    THEN <<".", ".", ".">> \o SubSeq(content, Len(content) - 499, Len(content))
    ELSE content

\* content[:500] + '...' when len(content) > 500
Truncated(content) ==
    IF Len(content) > 500
    THEN SubSeq(content, 1, 500) \o <<".", ".", ".">>
    ELSE content

\* `if len(content) > 500: content = content[:500] + '...'` for a content
\* of any type: the exception raised, or the content after it. A list or a
\* dict of at most 500 elements passes as it is; the slice of a longer list
\* cannot take the str, and the slice is no key of a dict.
Cut(content) ==
    LET Kept(value) == [exc |-> "none", value |-> value]
        Fails(exception) == [exc |-> exception, value |-> JNull]
    IN  CASE content.t = "str" -> Kept(JStr(Truncated(content.v)))
          [] content.t = "list" ->
                 IF Len(content.v) > 500 THEN Fails("TypeError")
                 ELSE Kept(content)
          [] content.t = "dict" ->
                 IF Cardinality(DOMAIN content.v) > 500 THEN Fails("KeyError")
                 ELSE Kept(content)
          [] OTHER -> Fails("TypeError")

\* f'r/{subreddit}' with ' | {score} points' and ' | {num_comments} comments'
MetadataLine(subreddit, score, num_comments) ==
    <<"r", "/">> \o Format(subreddit)
        \o (IF Bool(score)
            THEN <<" ", "|", " ">> \o Format(score)
                     \o <<" ", "p", "o", "i", "n", "t", "s">>
            ELSE <<>>)
        \o (IF Bool(num_comments)
            THEN <<" ", "|", " ">> \o Format(num_comments)
                     \o <<" ", "c", "o", "m", "m", "e", "n", "t", "s">>
            ELSE <<>>)

(* searxng/engines/reddit.py: the flat-list adapter                        *)

\* 'https://www.reddit.com'
base_url ==
    <<"h","t","t","p","s",":","/","/","w","w","w",".","r","e","d","d","i","t",
      ".","c","o","m">>

\* 'images.html'
IMAGES_TEMPLATE == <<"i","m","a","g","e","s",".","h","t","m","l">>

EMPTY_STR == JStr(<<>>)

\* The body of the loop of reddit.py's response for one post.
RedditPost(post) ==
    IF post.t # "dict" THEN PostRaises("AttributeError")
    ELSE
    LET permalink == DictGet(post, "permalink", EMPTY_STR)
        url == IF Bool(permalink) THEN base_url \o Format(permalink) ELSE <<>>
        title == DictGet(post, "title", EMPTY_STR)
        params == [url |-> JStr(url), title |-> title]
        thumbnail == DictGet(post, "thumbnail", EMPTY_STR)
    IN  IF url = <<>> \/ ~Bool(title) THEN Skipped
        ELSE IF thumbnail.t # "str" /\ Bool(thumbnail)
        THEN PostRaises("AttributeError")
        ELSE
        LET url_info == IF thumbnail.t = "str"
                        THEN urlparse(thumbnail.v)
                        ELSE [exc |-> "none", netloc |-> <<>>, path |-> <<>>]
        IN  IF url_info.exc # "none" THEN PostRaises(url_info.exc)
            ELSE IF /\ url_info.netloc # <<>>
                    /\ url_info.path # <<>>
                    /\ thumbnail.v \notin THUMBNAIL_SENTINELS
            THEN Appended("img_results",
                     Put(Put(Put(params,
                         "img_src", DictGet(post, "url", JStr(url))),
                         "thumbnail_src", thumbnail),
                         "template", JStr(IMAGES_TEMPLATE)))
            ELSE
            LET created_utc == DictGet(post, "created_utc", JInt(0))
                content == DictGet(post, "selftext", EMPTY_STR)
                subreddit == DictGet(post, "subreddit", EMPTY_STR)
                score == DictGet(post, "score", JInt(0))
                num_comments == DictGet(post, "num_comments", JInt(0))
                dated == IF Bool(created_utc)
                         THEN Put(params, "publishedDate",
                                  PyDate(created_utc.v))
                         ELSE params
                with_content == Put(dated, "content", Cut(content).value)
            IN  IF Bool(created_utc) /\ created_utc.t # "int"
                THEN PostRaises("TypeError")
                ELSE IF Cut(content).exc # "none"
                THEN PostRaises(Cut(content).exc)
                ELSE Appended("text_results",
                         IF Bool(subreddit)
                         THEN Put(with_content, "metadata",
                                  JStr(MetadataLine(subreddit, score,
                                                    num_comments)))
                         ELSE with_content)

\* A loop that returns the text records before the image records.
RECURSIVE RedditPosts_TextFirst(_, _, _, _)
RedditPosts_TextFirst(posts, i, img_results, text_results) ==
    IF i > Len(posts) THEN Returns(text_results \o img_results)
    ELSE LET p == RedditPost(posts[i])
         IN  IF p.exc # "none" THEN Raises(p.exc)
             ELSE RedditPosts_TextFirst(posts, i + 1,
                      IF p.list = "img_results"
                      THEN Append(img_results, p.record) ELSE img_results,
                      IF p.list = "text_results"
                      THEN Append(text_results, p.record) ELSE text_results)

\* for post in posts, from post i on.
RECURSIVE RedditPosts(_, _, _, _)
RedditPosts(posts, i, img_results, text_results) ==
    IF i > Len(posts) THEN Returns(img_results \o text_results)
    ELSE LET p == RedditPost(posts[i])
         IN  IF p.exc # "none" THEN Raises(p.exc)
             ELSE IF p.list = "img_results"
             THEN RedditPosts(posts, i + 1, Append(img_results, p.record),
                              text_results)
             ELSE IF p.list = "text_results"
             THEN RedditPosts(posts, i + 1, img_results,
                              Append(text_results, p.record))
             ELSE RedditPosts(posts, i + 1, img_results, text_results)

\* reddit.py: response(resp). resp.text is a text that json.loads decodes
\* to resp.text.value when resp.text.valid, and rejects otherwise.
reddit_response(resp) ==
    IF ~resp.text.valid THEN Raises("JSONDecodeError")
    ELSE
    LET search_results == resp.text.value
    IN  CASE search_results.t = "dict" ->
                 IF "data" \notin DOMAIN search_results.v THEN Returns(<<>>)
                 ELSE LET posts == search_results.v.data
                      IN  CASE posts.t = "list" ->
                                   RedditPosts(posts.v, 1, <<>>, <<>>)
                            [] posts.t \in {"str", "dict"} ->
                                   IF Bool(posts)
                                   THEN Raises("AttributeError")
                                   ELSE Returns(<<>>)
                            [] OTHER -> Raises("TypeError")
          [] search_results.t = "list" ->
                 IF \E i \in 1..Len(search_results.v) :
                        /\ search_results.v[i].t = "str"
                        /\ search_results.v[i].v = <<"d","a","t","a">>
                 THEN Raises("AttributeError")
                 ELSE Returns(<<>>)
          [] search_results.t = "str" ->
                 IF Contains(search_results.v, <<"d","a","t","a">>)
                 THEN Raises("AttributeError")
                 ELSE Returns(<<>>)
          [] OTHER -> Raises("TypeError")

(* searxng/engines/reddit_api.py: the nested-listing adapter               *)

\* "https://www.reddit.com"
REDDIT_URL == base_url

EMPTY_DICT == JDict(<<>>)

\* The body of the loop of reddit_api.py's response for one child.
RedditApiChild(child) ==
    IF child.t # "dict" THEN PostRaises("AttributeError")
    ELSE
    LET post == DictGet(child, "data", EMPTY_DICT)
    IN  IF post.t # "dict" THEN PostRaises("AttributeError")
        ELSE
        LET title == DictGet(post, "title", EMPTY_STR)
            permalink == DictGet(post, "permalink", EMPTY_STR)
            url == REDDIT_URL \o Format(permalink)
            content == DictGet(post, "selftext", EMPTY_STR)
            subreddit == DictGet(post, "subreddit", EMPTY_STR)
            score == DictGet(post, "score", JInt(0))
            num_comments == DictGet(post, "num_comments", JInt(0))
            created_utc == DictGet(post, "created_utc", JInt(0))
            thumbnail == DictGet(post, "thumbnail", EMPTY_STR)
            result == [url     |-> JStr(url),
                       title   |-> title,
                       content |-> Cut(content).value]
            dated == IF Bool(created_utc)
                     THEN Put(result, "publishedDate", PyDate(created_utc.v))
                     ELSE result
            described ==
                IF Bool(subreddit)
                THEN Put(dated, "metadata",
                         JStr(MetadataLine(subreddit, score, num_comments)))
                ELSE dated
            pictured ==
                IF /\ Bool(thumbnail)
                   /\ ~(thumbnail.t = "str"
                            /\ thumbnail.v \in THUMBNAIL_SENTINELS)
                THEN Put(Put(Put(described,
                         "img_src", DictGet(post, "url", JStr(url))),
                         "thumbnail_src", thumbnail),
                         "template", JStr(IMAGES_TEMPLATE))
                ELSE described
        IN  IF ~Bool(title) \/ ~Bool(permalink) THEN Skipped
            ELSE IF Cut(content).exc # "none"
            THEN PostRaises(Cut(content).exc)
            ELSE IF Bool(created_utc) /\ created_utc.t # "int"
            THEN PostRaises("TypeError")
            ELSE Appended("results", pictured)

\* A loop that regroups the records as reddit.py does: image records first.
RECURSIVE RedditApiChildren_ImagesFirst(_, _, _)
RedditApiChildren_ImagesFirst(children, i, results) ==
    IF i > Len(children) THEN Returns(results)
    ELSE LET c == RedditApiChild(children[i])
             IsImage(r) == "template" \in DOMAIN r
             IsText(r) == "template" \notin DOMAIN r
         IN  IF c.exc # "none" THEN Raises(c.exc)
             ELSE IF c.list = "results"
             THEN RedditApiChildren_ImagesFirst(children, i + 1,
                      IF IsImage(c.record)
                      THEN SelectSeq(results, IsImage) \o <<c.record>>
                               \o SelectSeq(results, IsText)
                      ELSE Append(results, c.record))
             ELSE RedditApiChildren_ImagesFirst(children, i + 1, results)

\* for child in children, from child i on.
RECURSIVE RedditApiChildren(_, _, _)
RedditApiChildren(children, i, results) ==
    IF i > Len(children) THEN Returns(results)
    ELSE LET c == RedditApiChild(children[i])
         IN  IF c.exc # "none" THEN Raises(c.exc)
             ELSE IF c.list = "results"
             THEN RedditApiChildren(children, i + 1, Append(results, c.record))
             ELSE RedditApiChildren(children, i + 1, results)

\* reddit_api.py: response(resp) from `results = []` on (lines 136-195).
RedditApiResults(resp) ==
    IF ~resp.text.valid THEN Returns(<<>>)
    ELSE
    LET data == resp.text.value
    IN  IF data.t # "dict" THEN Raises("AttributeError")
        ELSE
        LET listing == DictGet(data, "data", EMPTY_DICT)
        IN  IF listing.t # "dict" THEN Raises("AttributeError")
            ELSE
            LET children == DictGet(listing, "children", JList(<<>>))
            IN  CASE children.t = "list" ->
                         RedditApiChildren(children.v, 1, <<>>)
                  [] children.t \in {"str", "dict"} ->
                         IF Bool(children)
                         THEN Raises("AttributeError")
                         ELSE Returns(<<>>)
                  [] OTHER -> Raises("TypeError")

(* searxng/engines/sources_local.py: the generic flat adapter              *)

\* The body of the loop of sources_local.py's response for one item.
SourcesLocalItem(item) ==
    IF item.t # "dict" THEN PostRaises("AttributeError")
    ELSE
    LET title == DictGet(item, "title", EMPTY_STR)
        url == DictGet(item, "url", EMPTY_STR)
        content == DictGet(item, "content", EMPTY_STR)
    IN  IF ~Bool(title) \/ ~Bool(url) THEN Skipped
        ELSE Appended("results",
                      [title |-> title, url |-> url, content |-> content])

\* for item in data.get("results", []), from item i on.
RECURSIVE SourcesLocalItems(_, _, _)
SourcesLocalItems(items, i, results) ==
    IF i > Len(items) THEN Returns(results)
    ELSE LET r == SourcesLocalItem(items[i])
         IN  IF r.exc # "none" THEN Raises(r.exc)
             ELSE IF r.list = "results"
             THEN SourcesLocalItems(items, i + 1, Append(results, r.record))
             ELSE SourcesLocalItems(items, i + 1, results)

\* sources_local.py: response(resp). resp.json() decodes resp.text.
sources_local_response(resp) ==
    IF ~resp.text.valid THEN Raises("JSONDecodeError")
    ELSE
    LET data == resp.text.value
    IN  IF data.t # "dict" THEN Raises("AttributeError")
        ELSE
        LET items == DictGet(data, "results", JList(<<>>))
        IN  CASE items.t = "list" -> SourcesLocalItems(items.v, 1, <<>>)
              [] items.t \in {"str", "dict"} ->
                     IF Bool(items)
                     THEN Raises("AttributeError")
                     ELSE Returns(<<>>)
              [] OTHER -> Raises("TypeError")

(* Inputs of the adapters                                                  *)

\* A selftext of n characters.
LongText(n) == [i \in 1..n |-> "x"]

\* The posts a reddit payload is made of: with and without title,
\* permalink, thumbnail (sentinel, URL, URL without path, bare word, null,
\* URL after a space, URL with an unclosed bracket, the number 0), selftext
\* (absent, short, of 500 and of 501 characters, null, a list), subreddit,
\* score, num_comments and created_utc; an item that is no object; and a
\* second post with a thumbnail URL.
Posts == <<
    JDict([permalink |-> JStr(<<"/","r","/","x","/","1">>),
           title |-> JStr(<<"t">>),
           thumbnail |-> JStr(<<"s","e","l","f">>)]),
    JDict([permalink |-> JStr(<<"/","r","/","x","/","2">>),
           title |-> JStr(<<"i","m","g">>),
           thumbnail |-> JStr(<<"h","t","t","p","s",":","/","/","i",".","e","x","a","m","p","l","e","/","t",".","j","p","g">>),
           url |-> JStr(<<"h","t","t","p","s",":","/","/","i",".","e","x","a","m","p","l","e","/","f","u","l","l",".","j","p","g">>),
           selftext |-> JStr(<<"p","i","c">>),
           subreddit |-> JStr(<<"p","i","c","s">>),
           score |-> JInt(5)]),
    JDict([permalink |-> JStr(<<"/","r","/","x","/","3">>),
           title |-> JStr(<<"l","o","n","g">>),
           selftext |-> JStr(LongText(501)),
           subreddit |-> JStr(<<"p","y","t","h","o","n">>),
           score |-> JInt(5),
           num_comments |-> JInt(3),
           created_utc |-> JInt(1700000000)]),
    JDict([title |-> JStr(<<"n","o"," ","l","i","n","k">>)]),
    JDict([permalink |-> JStr(<<"/","r","/","x","/","5">>)]),
    JDict([permalink |-> JStr(<<>>),
           title |-> JStr(<<"e","m","p","t","y"," ","l","i","n","k">>)]),
    JDict([permalink |-> JStr(<<"/","r","/","x","/","7">>),
           title |-> JNull]),
    JDict([permalink |-> JStr(<<"/","r","/","x","/","8">>),
           title |-> JStr(<<"t","8">>),
           selftext |-> JStr(LongText(500)),
           subreddit |-> JStr(<<>>),
           score |-> JInt(0)]),
    JDict([permalink |-> JStr(<<"/","r","/","x","/","9">>),
           title |-> JStr(<<"t","9">>),
           thumbnail |-> JStr(<<"i","m","a","g","e">>)]),
    JDict([permalink |-> JStr(<<"/","r","/","x","/","1","0">>),
           title |-> JStr(<<"t","1","0">>),
           thumbnail |-> JStr(<<"h","t","t","p","s",":","/","/","i",".","e","x","a","m","p","l","e">>)]),
    JDict([permalink |-> JStr(<<"/","r","/","x","/","1","1">>),
           title |-> JStr(<<"t","1","1">>),
           selftext |-> JNull]),
    JDict([permalink |-> JNull,
           title |-> JStr(<<"t","1","2">>)]),
    JDict([permalink |-> JStr(<<"/","r","/","x","/","1","3">>),
           title |-> JStr(<<"t","1","3">>),
           thumbnail |-> JStr(<<"n","s","f","w">>),
           subreddit |-> JStr(<<"a","w","w">>),
           num_comments |-> JInt(3)]),
    JNull,
    JDict([permalink |-> JStr(<<"/","r","/","x","/","1","5">>),
           title |-> JStr(<<"t","1","5">>),
           thumbnail |-> JNull,
           created_utc |-> JInt(0)]),
    JDict([permalink |-> JStr(<<"/","r","/","x","/","1","6">>),
           title |-> JStr(<<"i","m","g","2">>),
           thumbnail |-> JStr(<<"h","t","t","p",":","/","/","t",".","e","x","a","m","p","l","e","/","a",".","p","n","g">>)]),
    JDict([permalink |-> JStr(<<"/","r","/","x","/","1","7">>),
           title |-> JStr(<<"t","1","7">>),
           thumbnail |-> JStr(<<" ","h","t","t","p","s",":","/","/","i",".","e","x","a","m","p","l","e","/","t",".","j","p","g">>)]),
    JDict([permalink |-> JStr(<<"/","r","/","x","/","1","8">>),
           title |-> JStr(<<"t","1","8">>),
           thumbnail |-> JStr(<<"h","t","t","p",":","/","/","[","b","a","d","/","p">>)]),
    JDict([permalink |-> JStr(<<"/","r","/","x","/","1","9">>),
           title |-> JStr(<<"t","1","9">>),
           thumbnail |-> JInt(0),
           selftext |-> JStr(<<"z">>)]),
    JDict([permalink |-> JStr(<<"/","r","/","x","/","2","0">>),
           title |-> JStr(<<"t","2","0">>),
           selftext |-> JList(<<JStr(<<"a">>)>>)])
>>

\* The items a sources_local payload is made of.
Items == <<
    JDict([title |-> JStr(<<"A">>),
           url |-> JStr(<<"h","t","t","p","s",":","/","/","a",".","e","x","a","m","p","l","e","/","1">>),
           content |-> JStr(<<"a">>)]),
    JDict([title |-> JStr(<<"B">>),
           url |-> JStr(<<"h","t","t","p","s",":","/","/","b",".","e","x","a","m","p","l","e","/","2">>)]),
    JDict([url |-> JStr(<<"h","t","t","p","s",":","/","/","c",".","e","x","a","m","p","l","e","/","3">>),
           content |-> JStr(<<"c">>)]),
    JDict([title |-> JStr(<<>>),
           url |-> JStr(<<"h","t","t","p","s",":","/","/","d",".","e","x","a","m","p","l","e","/","4">>),
           content |-> JStr(<<"d">>)]),
    JDict([title |-> JStr(<<"E">>),
           url |-> JNull,
           content |-> JStr(<<"e">>)]),
    JDict([title |-> JStr(<<"F">>),
           url |-> JStr(<<>>),
           content |-> JStr(<<"f">>)]),
    JNull
>>

\* The number of posts or items of a payload.
MaxPosts == 2

\* The sequences of at most n elements of the sequence `table`.
SeqsUpTo(table, n) ==
    UNION {[1..k -> {table[i] : i \in 1..Len(table)}] : k \in 0..n}

\* A response whose text json.loads decodes to `value`, and one whose text
\* is no JSON.
Decodes(value) == [valid |-> TRUE, value |-> value]
NotJson == [valid |-> FALSE, value |-> JNull]

\* {"data": [post, ...]}: the flat list reddit.py expects.
FlatPayload(posts) == JDict([data |-> JList(posts)])

\* {"data": {"children": [{"kind": "t3", "data": post}, ...]}}: the nested
\* listing reddit_api.py expects.
NestedPayload(posts) ==
    JDict([data |-> JDict([children |->
        JList([i \in 1..Len(posts) |->
                  JDict([kind |-> JStr(<<"t", "3">>), data |-> posts[i]])])])])

\* {"results": [item, ...]}: what sources_local.py expects.
GenericPayload(items) == JDict([results |-> JList(items)])

\* Payloads of another shape: an empty object, a list, null at the place of
\* the list, and each adapter's payload handed to another adapter.
OddPayloads == {
    JDict(<<>>),
    JList(<<>>),
    JDict([data |-> JNull]),
    JDict([results |-> JNull]),
    JDict([data |-> JDict([children |-> JNull])]),
    JDict([data |-> JDict([children |-> JList(<<JDict([kind |-> JStr(<<"t", "3">>)])>>)])]),
    FlatPayload(<<Posts[1]>>),
    NestedPayload(<<Posts[1]>>),
    GenericPayload(<<Items[1]>>)}

RedditTexts ==
    {Decodes(FlatPayload(p)) : p \in SeqsUpTo(Posts, MaxPosts)}
        \cup {Decodes(v) : v \in OddPayloads} \cup {NotJson}

RedditApiTexts ==
    {Decodes(NestedPayload(p)) : p \in SeqsUpTo(Posts, MaxPosts)}
        \cup {Decodes(v) : v \in OddPayloads} \cup {NotJson}

SourcesLocalTexts ==
    {Decodes(GenericPayload(p)) : p \in SeqsUpTo(Items, MaxPosts)}
        \cup {Decodes(v) : v \in OddPayloads} \cup {NotJson}

----------------------------------------------------------------------------
(* searxng/engines/reddit_api.py: the token cache and the rate governor    *)

_RATE_SAFETY_FLOOR == 50

\* _rate_remaining and _rate_reset when the module is loaded.
INITIAL_RATE_REMAINING == 1000
INITIAL_RATE_RESET == 0

\* _token (no token: 0, Python's None) and _token_expires when the module
\* is loaded. A token is named by the number of the exchange that issued it.
NO_TOKEN == 0
INITIAL_TOKEN_EXPIRES == 0

\* data.get("expires_in", 3600) - 60
DEFAULT_EXPIRES_IN == 3600
EXPIRY_MARGIN == 60

\* "Rate limits (OAuth): 1000 requests per 10 minutes (600 seconds)"
UPSTREAM_LIMIT == 1000
UPSTREAM_WINDOW == 600

\* The code points of the digits zero of Unicode 15.1 other than "0": the
\* decimal digits of a script are the ten characters from its zero on.
DECIMAL_ZEROS == {
    \H0660, \H06f0, \H07c0, \H0966, \H09e6, \H0a66, \H0ae6, \H0b66,
    \H0be6, \H0c66, \H0ce6, \H0d66, \H0de6, \H0e50, \H0ed0, \H0f20,
    \H1040, \H1090, \H17e0, \H1810, \H1946, \H19d0, \H1a80, \H1a90,
    \H1b50, \H1bb0, \H1c40, \H1c50, \Ha620, \Ha8d0, \Ha900, \Ha9d0,
    \Ha9f0, \Haa50, \Habf0, \Hff10, \H104a0, \H10d30, \H11066, \H110f0,
    \H11136, \H111d0, \H112f0, \H11450, \H114d0, \H11650, \H116c0, \H11730,
    \H118e0, \H11950, \H11c50, \H11d50, \H11da0, \H11f50, \H16a60, \H16ac0,
    \H16b50, \H1d7ce, \H1d7d8, \H1d7e2, \H1d7ec, \H1d7f6, \H1e140, \H1e2f0,
    \H1e4f0, \H1e950, \H1fbf0}

\* The decimal digits of each value from 0 to 9.
DECIMAL_DIGITS ==
    [d \in 0..9 |-> {DIGITS[d + 1]} \cup {CharName(z + d) : z \in DECIMAL_ZEROS}]

\* The character c is a decimal digit of value d.
IsDecimal(c, d) == c \in DECIMAL_DIGITS[d]

\* The space float() strips: the ASCII space characters of the parser and
\* the characters beyond ASCII str.isspace() holds for, which float() turns
\* into spaces first.
FLOAT_SPACE == Whitespace \ {"u001c", "u001d", "u001e", "u001f"}

\* float(s) of a str s, as far as int(float(s)) depends on it: the kind of
\* the float and, for a finite one, its integer part. The strings are those
\* without an exponent part and without "_": decimal numerals of fewer than
\* 10 digits, in the decimal digits of any script, "inf", "infinity" and
\* "nan", all with optional sign and surrounding space, are floats; the
\* others raise ValueError.
IsDigits(s) == \A i \in 1..Len(s) : \E d \in 0..9 : IsDecimal(s[i], d)

DigitValue(c) == CHOOSE d \in 0..9 : IsDecimal(c, d)

RECURSIVE NatValue(_)
NatValue(s) ==
    IF s = <<>> THEN 0
    ELSE NatValue(SubSeq(s, 1, Len(s) - 1)) * 10 + DigitValue(s[Len(s)])

PyFloat(s) ==
    LET kept == {i \in 1..Len(s) : s[i] \notin FLOAT_SPACE}
        first == CHOOSE i \in kept : \A j \in kept : i <= j
        last == CHOOSE i \in kept : \A j \in kept : i >= j
        stripped == IF kept = {} THEN <<>> ELSE SubSeq(s, first, last)
        signed == stripped # <<>> /\ stripped[1] \in {"+", "-"}
        sign == IF signed /\ stripped[1] = "-" THEN -1 ELSE 1
        body == IF signed THEN Tail(stripped) ELSE stripped
        word == Lower(body)
        dot == FirstOf(body, {"."}, 1)
        whole == SubSeq(body, 1, dot - 1)
        frac == SubSeq(body, dot + 1, Len(body))
    IN  IF word \in {<<"i","n","f">>, <<"i","n","f","i","n","i","t","y">>}
        THEN [kind |-> "inf", int |-> 0]
        ELSE IF word = <<"n","a","n">>
        THEN [kind |-> "nan", int |-> 0]
        ELSE IF /\ IsDigits(whole)
                /\ IsDigits(frac)
                /\ Len(whole) + Len(frac) > 0
        THEN [kind |-> "finite", int |-> sign * NatValue(whole)]
        ELSE [kind |-> "invalid", int |-> 0]

\* int(float(s)): the value, or the exception raised.
IntOfFloat(s) ==
    LET f == PyFloat(s)
    IN  CASE f.kind = "finite" -> [exc |-> "none", value |-> f.int]
          [] f.kind = "inf" -> [exc |-> "OverflowError", value |-> 0]
          [] OTHER -> [exc |-> "ValueError", value |-> 0]

\* A check that lifts already when the clock reaches the reset time.
ResetHasPassed_AtReset(now_, rate_reset) == now_ >= rate_reset

\* `if now > _rate_reset` (line 83), on the clock value line 81 read.
ResetHasPassed(now_, rate_reset) == now_ > rate_reset

\* `if _rate_remaining < _RATE_SAFETY_FLOOR` (line 85)
BelowFloor(rate_remaining) == rate_remaining < _RATE_SAFETY_FLOOR

\* _is_rate_limited() run whole at time now_ (lines 79-92).
_is_rate_limited(now_, rate_remaining, rate_reset) ==
    IF ResetHasPassed(now_, rate_reset) THEN FALSE
    ELSE IF BelowFloor(rate_remaining) THEN TRUE
    ELSE FALSE

\* A cache that is taken as valid from its expiry on.
BeforeExpiry_Inverted(now_, token_expires) == now_ >= token_expires

\* `time.time() < _token_expires` (line 55), on the clock value read before
\* _token_expires is.
BeforeExpiry(now_, token_expires) == now_ < token_expires

\* time.time() + data.get("expires_in", 3600) - 60 (line 75), on the clock
\* value time.time() returned
TokenExpiry(now_, data) ==
    now_ + Get(data, "expires_in", DEFAULT_EXPIRES_IN) - EXPIRY_MARGIN

\* The callers (threads of the host process) that share the module's state.
NCallers == 2
Callers == 1..NCallers

\* Bounds on the calls started, on the clock steps and on the tokens issued.
MaxCalls == 3
MaxTicks == 2
MaxExchanges == 2

\* The queries passed to request(), and the URL request() builds for each:
\* f"https://oauth.reddit.com/search?{urlencode({...})}".
GovernorQueries == {"a b"}

SearchUrl(q_) ==
    CASE q_ = "a b" ->
             "https://oauth.reddit.com/search?q=a+b&limit=25&sort=relevance&t=all&type=link&restrict_sr=False"

\* What the token endpoint answers to an exchange that would issue token k:
\* the decoded reply with or without expires_in, a reply without
\* access_token, or no reply (urlopen raises URLError).
TokenReplies(k) == {
    [exc |-> "none", data |-> [access_token |-> k]],
    [exc |-> "none", data |-> [access_token |-> k, expires_in |-> 7200]],
    [exc |-> "none", data |-> [error |-> "invalid_grant"]],
    [exc |-> "URLError", data |-> <<>>]}

\* The same while request() is called: a token without expires_in, a reply
\* without access_token, or no reply.
GovernorTokenReplies(k) == {
    [exc |-> "none", data |-> [access_token |-> k]],
    [exc |-> "none", data |-> [error |-> "invalid_grant"]],
    [exc |-> "URLError", data |-> <<>>]}

\* Rate-limit headers as the upstream sends them for a true remaining quota
\* and a number of seconds to the end of the window.
FaithfulHeaders(remaining, seconds) ==
    [x_ratelimit_remaining |-> FormatInt(remaining) \o <<".", "0">>,
     x_ratelimit_reset     |-> FormatInt(seconds),
     x_ratelimit_used      |-> FormatInt(UPSTREAM_LIMIT - remaining)]

\* Other header sets a response may carry: none of the three headers,
\* a malformed or non-finite value, values with a fraction, values written
\* in other decimal digits with white space around them.
OddHeaders == {
    <<>>,
    [x_ratelimit_remaining |-> <<"a","b","c">>, x_ratelimit_reset |-> <<"6","0","0">>],
    [x_ratelimit_remaining |-> <<"1","0">>, x_ratelimit_reset |-> <<"s","o","o","n">>],
    [x_ratelimit_remaining |-> <<"i","n","f">>, x_ratelimit_reset |-> <<"1">>],
    [x_ratelimit_remaining |-> <<"4","9",".","9">>, x_ratelimit_reset |-> <<"1",".","9">>,
     x_ratelimit_used |-> <<"9","5","0">>],
    [x_ratelimit_remaining |-> <<"u00a0","u0661","u0662">>, x_ratelimit_reset |-> <<"uff11","u0085">>]}

\* The texts of the responses the upstream gives to a search request.
UpstreamTexts == {Decodes(NestedPayload(<<Posts[1]>>)), NotJson}

\* The true remaining quota and the end of the window at the upstream when
\* the module is loaded.
UpstreamRemainingAtStart == {1, 50, 51}
UpstreamResetAtStart == {2}

\* time.time() when the module is loaded.
START_TIME == 1

VARIABLES
    now,                \* time.time()
    _token,             \* the cached token (NO_TOKEN: None)
    _token_expires,
    _rate_remaining,
    _rate_reset,
    issued,             \* per token issued: the deadline its own call stored
    up_remaining,       \* the upstream's true remaining quota of its window
    up_reset,           \* the time the upstream's window ends
    overrun,            \* a request went out with no true quota left
    observed,           \* response() has read the headers of a response
    tpc,                \* per caller: where it stands
    tcall,              \* per caller: the function it was called for
    tquery,             \* per caller: request's query argument
    tdata,              \* per caller: _get_token's data
    ttoken,             \* per caller: request's token
    tresp,              \* per caller: the response to its request
    tret,               \* per caller: what its last call came to
    tchk,               \* per caller: the clock and the cache as line 55
                        \* saw them
    texch,              \* per caller: its call made an exchange
    tover,              \* per caller: another call wrote the cache meanwhile
    tnow,               \* per caller: what time.time() returned to the
                        \* statement it is in (0: nothing)
    ticks,
    ncalls

govVars ==
    <<now, _token, _token_expires, _rate_remaining, _rate_reset, issued,
      up_remaining, up_reset, overrun, observed, tpc, tcall, tquery, tdata,
      ttoken, tresp, tret, tchk, texch, tover, tnow, ticks, ncalls>>

tokenState == <<_token, _token_expires>>
rateState == <<_rate_remaining, _rate_reset>>
upstreamState == <<up_remaining, up_reset, overrun, observed>>
clockState == <<now, ticks>>

NoResponse == [headers |-> <<>>, text |-> NotJson]
NoReturn == [call |-> "none", exc |-> "none"]
NoCheck == [at |-> 0, token |-> NO_TOKEN, expires |-> 0]

\* The module as loaded, no caller inside it.
GovLoaded ==
    /\ now = START_TIME
    /\ _token = NO_TOKEN
    /\ _token_expires = INITIAL_TOKEN_EXPIRES
    /\ _rate_remaining = INITIAL_RATE_REMAINING
    /\ _rate_reset = INITIAL_RATE_RESET
    /\ issued = <<>>
    /\ overrun = FALSE
    /\ observed = FALSE
    /\ tpc = [t \in Callers |-> "idle"]
    /\ tcall = [t \in Callers |-> "none"]
    /\ tquery = [t \in Callers |-> ""]
    /\ tdata = [t \in Callers |-> <<>>]
    /\ ttoken = [t \in Callers |-> NO_TOKEN]
    /\ tresp = [t \in Callers |-> NoResponse]
    /\ tret = [t \in Callers |-> NoReturn]
    /\ tchk = [t \in Callers |-> NoCheck]
    /\ texch = [t \in Callers |-> FALSE]
    /\ tover = [t \in Callers |-> FALSE]
    /\ tnow = [t \in Callers |-> 0]
    /\ ticks = 0

GovInit ==
    /\ GovLoaded
    /\ up_remaining \in UpstreamRemainingAtStart
    /\ up_reset \in UpstreamResetAtStart
    /\ ncalls = 0

\* The module loaded and never called.
GovOff ==
    /\ GovLoaded
    /\ up_remaining = UPSTREAM_LIMIT
    /\ up_reset = START_TIME + UPSTREAM_WINDOW
    /\ ncalls = MaxCalls

\* Caller t starts a call of `call`.
StartCall(t, call) ==
    /\ tpc[t] = "idle"
    /\ ncalls < MaxCalls
    /\ ncalls' = ncalls + 1
    /\ tcall' = [tcall EXCEPT ![t] = call]
    /\ texch' = [texch EXCEPT ![t] = FALSE]
    /\ tresp' = [tresp EXCEPT ![t] = NoResponse]

\* Caller t's call ends with `result`; an exception ends request() as it
\* ends _get_token().
EndCall(t, result) ==
    /\ tpc' = [tpc EXCEPT ![t] = "idle"]
    /\ tret' = [tret EXCEPT ![t] = result]

\* The callers other than t that are inside _get_token() between line 55
\* and their return see the cache written by t.
InGetToken(u) ==
    tpc[u] \in {"check_expires", "return_cached", "exchange", "store_token",
                "expiry_clock", "store_expiry", "return_token"}

WrittenBy(t) ==
    [u \in Callers |-> IF u # t /\ InGetToken(u) THEN TRUE ELSE tover[u]]

\* Line 55, `if _token and time.time() < _token_expires`, up to the return
\* of time.time(): _token is read, and the clock when _token is set. tchk
\* keeps the cache as it is at this moment.
Line55(t) ==
    /\ tchk' = [tchk EXCEPT ![t] =
                   [at |-> now, token |-> _token, expires |-> _token_expires]]
    /\ tover' = [tover EXCEPT ![t] = FALSE]
    /\ tpc' = [tpc EXCEPT ![t] =
                  IF _token # NO_TOKEN THEN "check_expires" ELSE "exchange"]

\* _get_token() is called and evaluates line 55 up to time.time().
CallGetToken(t) ==
    /\ StartCall(t, "_get_token")
    /\ Line55(t)
    /\ tret' = [tret EXCEPT ![t] = NoReturn]
    /\ UNCHANGED <<tokenState, rateState, upstreamState, clockState, issued,
                   tquery, tdata, ttoken, tnow>>

\* Line 55 after time.time(): _token_expires is read, kept in tchk, and
\* compared with the clock value read before.
CheckExpires(t) ==
    /\ tpc[t] = "check_expires"
    /\ tchk' = [tchk EXCEPT ![t].expires = _token_expires]
    /\ tpc' = [tpc EXCEPT ![t] =
                  IF BeforeExpiry(tchk[t].at, _token_expires)
                  THEN "return_cached"
                  ELSE "exchange"]
    /\ UNCHANGED <<tokenState, rateState, upstreamState, clockState, issued,
                   tcall, tquery, tdata, ttoken, tresp, tret, texch, tover,
                   tnow, ncalls>>

\* A request() that fetches the token before it looks at the rate budget.
Request_TokenFirst(t) ==
    /\ StartCall(t, "request")
    /\ \E q \in GovernorQueries :
          /\ tpc' = [tpc EXCEPT ![t] = "get_token"]
          /\ tret' = [tret EXCEPT ![t] = NoReturn]
          /\ tquery' = [tquery EXCEPT ![t] = q]
    /\ UNCHANGED <<tokenState, rateState, upstreamState, clockState, issued,
                   tdata, ttoken, tchk, tover, tnow>>

\* request(query, params) is called: line 97 calls _is_rate_limited(),
\* whose line 81 reads the clock.
Request(t) ==
    /\ StartCall(t, "request")
    /\ \E q \in GovernorQueries :
          /\ tpc' = [tpc EXCEPT ![t] = "check_reset"]
          /\ tret' = [tret EXCEPT ![t] = NoReturn]
          /\ tquery' = [tquery EXCEPT ![t] = q]
    /\ tnow' = [tnow EXCEPT ![t] = now]
    /\ UNCHANGED <<tokenState, rateState, upstreamState, clockState, issued,
                   tdata, ttoken, tchk, tover>>

\* _is_rate_limited(): line 83 reads _rate_reset; `return False` of line 84
\* lets request() go on at line 100.
CheckReset(t) ==
    /\ tpc[t] = "check_reset"
    /\ tpc' = [tpc EXCEPT ![t] =
                  IF ResetHasPassed(tnow[t], _rate_reset)
                  THEN "get_token"
                  ELSE "check_remaining"]
    /\ tnow' = [tnow EXCEPT ![t] = 0]
    /\ UNCHANGED <<tokenState, rateState, upstreamState, clockState, issued,
                   tcall, tquery, tdata, ttoken, tresp, tret, tchk, texch,
                   tover, ncalls>>

\* _is_rate_limited(): line 85 reads _rate_remaining; on `return True`
\* request() returns None (line 98), on `return False` it goes on.
CheckRemaining(t) ==
    /\ tpc[t] = "check_remaining"
    /\ IF BelowFloor(_rate_remaining)
       THEN /\ EndCall(t, [call |-> "request", exc |-> "none",
                           returned |-> "None"])
            /\ tquery' = [tquery EXCEPT ![t] = ""]
       ELSE /\ tpc' = [tpc EXCEPT ![t] = "get_token"]
            /\ UNCHANGED <<tret, tquery>>
    /\ UNCHANGED <<tokenState, rateState, upstreamState, clockState, issued,
                   tcall, tdata, ttoken, tresp, tchk, texch, tover, tnow,
                   ncalls>>

\* request(): line 100 calls _get_token(), which evaluates line 55 up to
\* time.time().
RequestGetToken(t) ==
    /\ tpc[t] = "get_token"
    /\ Line55(t)
    /\ UNCHANGED <<tokenState, rateState, upstreamState, clockState, issued,
                   tcall, tquery, tdata, ttoken, tresp, tret, texch, tnow,
                   ncalls>>

\* _get_token() returns _token to its caller: to request() at line 100, or
\* out of the module.
ReturnGlobalToken(t) ==
    /\ IF tcall[t] = "request"
       THEN /\ ttoken' = [ttoken EXCEPT ![t] = _token]
            /\ tpc' = [tpc EXCEPT ![t] = "build"]
            /\ tret' = tret
       ELSE /\ EndCall(t, [call |-> "_get_token", exc |-> "none",
                           value |-> _token])
            /\ ttoken' = ttoken
    /\ tdata' = [tdata EXCEPT ![t] = <<>>]
    /\ UNCHANGED <<tokenState, rateState, upstreamState, clockState, issued,
                   tcall, tquery, tresp, tchk, texch, tover, tnow, ncalls>>

\* A line 56 that also renews the expiry of the cached token it returns.
ReturnCached_RenewsExpiry(t) ==
    /\ tpc[t] = "return_cached"
    /\ ttoken' = [ttoken EXCEPT ![t] = _token]
    /\ tpc' = [tpc EXCEPT ![t] = "build"]
    /\ tdata' = [tdata EXCEPT ![t] = <<>>]
    /\ _token_expires' = now + DEFAULT_EXPIRES_IN - EXPIRY_MARGIN
    /\ UNCHANGED <<_token, rateState, upstreamState, clockState, issued,
                   tcall, tquery, tresp, tret, tchk, texch, tover, tnow,
                   ncalls>>

\* Line 56: `return _token`.
ReturnCached(t) ==
    /\ tpc[t] = "return_cached"
    /\ ReturnGlobalToken(t)

\* Lines 58-72: the client-credentials exchange, answered with one of
\* `replies`.
Exchange(t, replies) ==
    /\ tpc[t] = "exchange"
    /\ Len(issued) < MaxExchanges
    /\ \E reply \in replies :
          IF reply.exc # "none"
          THEN /\ EndCall(t, [call |-> tcall[t], exc |-> reply.exc])
               /\ tquery' = [tquery EXCEPT ![t] = ""]
               /\ UNCHANGED <<issued, tdata, texch>>
          ELSE /\ tdata' = [tdata EXCEPT ![t] = reply.data]
               /\ texch' = [texch EXCEPT ![t] = TRUE]
               /\ issued' = IF "access_token" \in DOMAIN reply.data
                            THEN Append(issued, 0)
                            ELSE issued
               /\ tpc' = [tpc EXCEPT ![t] = "store_token"]
               /\ UNCHANGED <<tret, tquery>>
    /\ UNCHANGED <<tokenState, rateState, upstreamState, clockState, tcall,
                   ttoken, tresp, tchk, tover, tnow, ncalls>>

\* A line 74 that reads data.get("access_token") and goes on with None.
StoreToken_DefaultsToNone(t) ==
    /\ tpc[t] = "store_token"
    /\ _token' = Get(tdata[t], "access_token", NO_TOKEN)
    /\ tover' = WrittenBy(t)
    /\ tpc' = [tpc EXCEPT ![t] =
                  IF "access_token" \in DOMAIN tdata[t]
                  THEN "expiry_clock" ELSE "return_token"]
    /\ UNCHANGED <<tret, tdata, tquery>>
    /\ UNCHANGED <<_token_expires, rateState, upstreamState, clockState,
                   issued, tcall, ttoken, tresp, tchk, texch, tnow, ncalls>>

\* Line 74: `_token = data["access_token"]`.
StoreToken(t) ==
    /\ tpc[t] = "store_token"
    /\ IF "access_token" \in DOMAIN tdata[t]
       THEN /\ _token' = tdata[t].access_token
            /\ tover' = WrittenBy(t)
            /\ tpc' = [tpc EXCEPT ![t] = "expiry_clock"]
            /\ UNCHANGED <<tret, tdata, tquery>>
       ELSE /\ EndCall(t, [call |-> tcall[t], exc |-> "KeyError"])
            /\ tdata' = [tdata EXCEPT ![t] = <<>>]
            /\ tquery' = [tquery EXCEPT ![t] = ""]
            /\ UNCHANGED <<_token, tover>>
    /\ UNCHANGED <<_token_expires, rateState, upstreamState, clockState,
                   issued, tcall, ttoken, tresp, tchk, texch, tnow, ncalls>>

\* Line 75, `_token_expires = time.time() + data.get("expires_in", 3600) -
\* 60`, up to the return of time.time().
ExpiryClock(t) ==
    /\ tpc[t] = "expiry_clock"
    /\ tnow' = [tnow EXCEPT ![t] = now]
    /\ tpc' = [tpc EXCEPT ![t] = "store_expiry"]
    /\ UNCHANGED <<tokenState, rateState, upstreamState, clockState, issued,
                   tcall, tquery, tdata, ttoken, tresp, tret, tchk, texch,
                   tover, ncalls>>

\* Line 75 after time.time(): the sum is stored in _token_expires.
StoreExpiry(t) ==
    /\ tpc[t] = "store_expiry"
    /\ _token_expires' = TokenExpiry(tnow[t], tdata[t])
    /\ issued' = [issued EXCEPT ![tdata[t].access_token] =
                     TokenExpiry(tnow[t], tdata[t])]
    /\ tover' = WrittenBy(t)
    /\ tnow' = [tnow EXCEPT ![t] = 0]
    /\ tpc' = [tpc EXCEPT ![t] = "return_token"]
    /\ UNCHANGED <<_token, rateState, upstreamState, clockState, tcall,
                   tquery, tdata, ttoken, tresp, tret, tchk, texch, ncalls>>

\* Line 76: `return _token`.
ReturnToken(t) ==
    /\ tpc[t] = "return_token"
    /\ ReturnGlobalToken(t)
\* "SearXNG:reddit_api:1.0 (by /u/searxng-adapter)"
user_agent == "SearXNG:reddit_api:1.0 (by /u/searxng-adapter)"

\* request(): lines 101-116, the URL and the headers, and `return params`.
Build(t) ==
    /\ tpc[t] = "build"
    /\ tret' = [tret EXCEPT ![t] =
                   [call |-> "request", exc |-> "none", returned |-> "params",
                    params |->
                        [url |-> SearchUrl(tquery[t]),
                         headers |->
                             [Authorization |-> <<"Bearer", ttoken[t]>>,
                              User_Agent |-> user_agent]]]]
    /\ tpc' = [tpc EXCEPT ![t] = "send"]
    /\ tquery' = [tquery EXCEPT ![t] = ""]
    /\ ttoken' = [ttoken EXCEPT ![t] = NO_TOKEN]
    /\ tchk' = [tchk EXCEPT ![t] = NoCheck]
    /\ texch' = [texch EXCEPT ![t] = FALSE]
    /\ tover' = [tover EXCEPT ![t] = FALSE]
    /\ UNCHANGED <<tokenState, rateState, upstreamState, clockState, issued,
                   tcall, tdata, tresp, tnow, ncalls>>

\* The answers of the upstream to a request that leaves `remaining` of the
\* quota, `seconds` before the end of the window: a listing or a text that
\* is no JSON, with the faithful headers.
UpstreamAnswers(remaining, seconds) ==
    {[headers |-> FaithfulHeaders(remaining, seconds), text |-> text] :
         text \in UpstreamTexts}

\* The request that request() returned goes out. The upstream starts a new
\* window when the last one has ended, counts the request against the
\* window's quota and answers.
Send(t) ==
    /\ tpc[t] = "send"
    /\ LET rolled == now >= up_reset
           quota == IF rolled THEN UPSTREAM_LIMIT ELSE up_remaining
           reset == IF rolled THEN now + UPSTREAM_WINDOW ELSE up_reset
           left == IF quota > 0 THEN quota - 1 ELSE 0
       IN  /\ up_remaining' = left
           /\ up_reset' = reset
           /\ overrun' = (overrun \/ quota = 0)
           /\ \E answer \in UpstreamAnswers(left, reset - now) :
                  tresp' = [tresp EXCEPT ![t] = answer]
    /\ tpc' = [tpc EXCEPT ![t] = "response"]
    /\ UNCHANGED <<tokenState, rateState, clockState, issued, observed, tcall,
                   tquery, tdata, ttoken, tret, tchk, texch, tover, tnow,
                   ncalls>>

\* response(resp): lines 123-128, the three headers are read and
\* _rate_remaining is assigned. ValueError leaves the try statement through
\* its except clause; any other exception leaves response().
ResponseRemaining(t) ==
    /\ tpc[t] = "response"
    /\ observed' = TRUE
    /\ LET h == tresp[t].headers
           r == IntOfFloat(h.x_ratelimit_remaining)
       IN  IF "x_ratelimit_remaining" \notin DOMAIN h
           THEN /\ tpc' = [tpc EXCEPT ![t] = "reset_clock"]
                /\ UNCHANGED <<_rate_remaining, tret>>
           ELSE IF r.exc = "none"
           THEN /\ _rate_remaining' = r.value
                /\ tpc' = [tpc EXCEPT ![t] = "reset_clock"]
                /\ tret' = tret
           ELSE IF r.exc = "ValueError"
           THEN /\ tpc' = [tpc EXCEPT ![t] = "response_parse"]
                /\ UNCHANGED <<_rate_remaining, tret>>
           ELSE /\ EndCall(t, [call |-> "response", exc |-> r.exc])
                /\ UNCHANGED _rate_remaining
    /\ UNCHANGED <<tokenState, _rate_reset, up_remaining, up_reset, overrun,
                   clockState, issued, tcall, tquery, tdata, ttoken, tresp,
                   tchk, texch, tover, tnow, ncalls>>

\* response(resp): lines 129-130, `_rate_reset = time.time() +
\* int(float(reset))`, up to the return of time.time(); without the header
\* line 131 follows.
ResetClock(t) ==
    /\ tpc[t] = "reset_clock"
    /\ IF "x_ratelimit_reset" \in DOMAIN tresp[t].headers
       THEN /\ tnow' = [tnow EXCEPT ![t] = now]
            /\ tpc' = [tpc EXCEPT ![t] = "response_reset"]
       ELSE /\ tnow' = tnow
            /\ tpc' = [tpc EXCEPT ![t] = "response_parse"]
    /\ UNCHANGED <<tokenState, rateState, upstreamState, clockState, issued,
                   tcall, tquery, tdata, ttoken, tresp, tret, tchk, texch,
                   tover, ncalls>>

\* response(resp): lines 130-134 after time.time(), the header is parsed
\* and the sum is stored in _rate_reset.
ResponseReset(t) ==
    /\ tpc[t] = "response_reset"
    /\ LET r == IntOfFloat(tresp[t].headers.x_ratelimit_reset)
       IN  IF r.exc = "none"
           THEN /\ _rate_reset' = tnow[t] + r.value
                /\ tpc' = [tpc EXCEPT ![t] = "response_parse"]
                /\ tret' = tret
           ELSE IF r.exc = "ValueError"
           THEN /\ tpc' = [tpc EXCEPT ![t] = "response_parse"]
                /\ UNCHANGED <<_rate_reset, tret>>
           ELSE /\ EndCall(t, [call |-> "response", exc |-> r.exc])
                /\ UNCHANGED _rate_reset
    /\ tnow' = [tnow EXCEPT ![t] = 0]
    /\ UNCHANGED <<tokenState, _rate_remaining, upstreamState, clockState,
                   issued, tcall, tquery, tdata, ttoken, tresp, tchk, texch,
                   tover, ncalls>>

\* A response() that returns nothing while the budget it recorded
\* throttles.
ResponseParse_SkipsWhenThrottled(t) ==
    /\ tpc[t] = "response_parse"
    /\ \E out \in {IF _is_rate_limited(now, _rate_remaining, _rate_reset)
                   THEN Returns(<<>>)
                   ELSE RedditApiResults(tresp[t])} :
          EndCall(t, [call |-> "response", exc |-> out.exc,
                      results |-> out.results])
    /\ UNCHANGED <<tokenState, rateState, upstreamState, clockState, issued,
                   tcall, tquery, tdata, ttoken, tresp, tchk, texch, tover,
                   tnow, ncalls>>

\* response(resp): lines 136-195, the payload is decoded and the results
\* are built and returned.
ResponseParse(t) ==
    /\ tpc[t] = "response_parse"
    /\ \E out \in {RedditApiResults(tresp[t])} :
          EndCall(t, [call |-> "response", exc |-> out.exc,
                      results |-> out.results])
    /\ UNCHANGED <<tokenState, rateState, upstreamState, clockState, issued,
                   tcall, tquery, tdata, ttoken, tresp, tchk, texch, tover,
                   tnow, ncalls>>

\* The clock advances by d seconds.
Tick(d) ==
    /\ ticks < MaxTicks
    /\ now' = now + d
    /\ ticks' = ticks + 1
    /\ UNCHANGED <<tokenState, rateState, upstreamState, issued, tpc, tcall,
                   tquery, tdata, ttoken, tresp, tret, tchk, texch, tover,
                   tnow, ncalls>>

\* The clock steps while _get_token() is called directly, and while
\* request() and response() are.
TokenTicks == {1, 3540}
GovernorTicks == {1}

----------------------------------------------------------------------------
(* The calls of the adapters reddit.py and sources_local.py, and the calls *)
(* of reddit_api.py's response() that have ended                           *)

VARIABLES
    ad_pc,              \* "call": response(resp) is to run; "done"; "off"
    ad_adapter,         \* the module whose response() is called
    ad_resp,            \* the argument resp
    ad_out,             \* what the call came to
    ad_prev,            \* what the call before it came to, on the same resp
    replies             \* the calls of reddit_api.py's response() ended, in
                        \* the order they ended: resp, what the call came
                        \* to, and the module's state it ended on

adVars == <<ad_pc, ad_adapter, ad_resp, ad_out, ad_prev, replies>>

\* No call before this one.
NoOutput == [exc |-> "none", results |-> <<>>, call |-> "none"]

AdInit ==
    /\ ad_pc = "call"
    /\ \/ /\ ad_adapter = "reddit"
          /\ \E text \in RedditTexts :
                 ad_resp = [headers |-> <<>>, text |-> text]
       \/ /\ ad_adapter = "sources_local"
          /\ \E text \in SourcesLocalTexts :
                 ad_resp = [headers |-> <<>>, text |-> text]
    /\ ad_out = Returns(<<>>)
    /\ ad_prev = NoOutput
    /\ replies = <<>>

AdOff ==
    /\ ad_pc = "off"
    /\ ad_adapter = "none"
    /\ ad_resp = NoResponse
    /\ ad_out = Returns(<<>>)
    /\ ad_prev = NoOutput
    /\ replies = <<>>

\* reddit.py: response(resp)
RedditResponse ==
    /\ ad_pc = "call"
    /\ ad_adapter = "reddit"
    /\ ad_out' = reddit_response(ad_resp)
    /\ ad_pc' = "done"
    /\ UNCHANGED <<ad_adapter, ad_resp, ad_prev, replies>>

\* sources_local.py: response(resp)
SourcesLocalResponse ==
    /\ ad_pc = "call"
    /\ ad_adapter = "sources_local"
    /\ ad_out' = sources_local_response(ad_resp)
    /\ ad_pc' = "done"
    /\ UNCHANGED <<ad_adapter, ad_resp, ad_prev, replies>>

\* response(resp) is called once more on the same resp.
AdRepeat ==
    /\ ad_pc = "done"
    /\ ad_prev = NoOutput
    /\ ad_prev' = ad_out
    /\ ad_pc' = "call"
    /\ UNCHANGED <<ad_adapter, ad_resp, ad_out, replies>>

\* reddit_api.py: the request of the callers of `active` has gone out at the
\* start time with the first token, and response(resp) is to run on the
\* upstream's answer, the same resp in every one of them.
GovSent(texts, headerSets, actives, ticks0, ncalls0) ==
    /\ now = START_TIME
    /\ _token = 1
    /\ _token_expires = START_TIME + DEFAULT_EXPIRES_IN - EXPIRY_MARGIN
    /\ _rate_remaining = INITIAL_RATE_REMAINING
    /\ _rate_reset = INITIAL_RATE_RESET
    /\ issued = <<START_TIME + DEFAULT_EXPIRES_IN - EXPIRY_MARGIN>>
    /\ up_remaining = UPSTREAM_LIMIT - 1
    /\ up_reset = START_TIME + UPSTREAM_WINDOW
    /\ overrun = FALSE
    /\ observed = FALSE
    /\ \E text \in texts :
          \E h \in headerSets :
          \E active \in actives :
              /\ tresp = [t \in Callers |->
                              IF t \in active
                              THEN [headers |-> h, text |-> text]
                              ELSE NoResponse]
              /\ tpc = [t \in Callers |->
                            IF t \in active THEN "response" ELSE "idle"]
    /\ \E q \in GovernorQueries :
          tret = [t \in Callers |->
                     IF tpc[t] = "response"
                     THEN [call |-> "request", exc |-> "none",
                           returned |-> "params",
                           params |->
                               [url |-> SearchUrl(q),
                                headers |->
                                    [Authorization |-> <<"Bearer", 1>>,
                                     User_Agent |-> user_agent]]]
                     ELSE NoReturn]
    /\ tcall = [t \in Callers |->
                   IF tpc[t] = "response" THEN "request" ELSE "none"]
    /\ tquery = [t \in Callers |-> ""]
    /\ tdata = [t \in Callers |-> <<>>]
    /\ ttoken = [t \in Callers |-> NO_TOKEN]
    /\ tchk = [t \in Callers |-> NoCheck]
    /\ texch = [t \in Callers |-> FALSE]
    /\ tover = [t \in Callers |-> FALSE]
    /\ tnow = [t \in Callers |-> 0]
    /\ ticks = ticks0
    /\ ncalls = ncalls0

\* response(resp) is to run in caller 1 alone, or in every caller, on any
\* text and any header set; no call follows.
GovAtResponse ==
    GovSent(RedditApiTexts,
            {FaithfulHeaders(UPSTREAM_LIMIT - 1, UPSTREAM_WINDOW)}
                \cup OddHeaders,
            {{1}, Callers}, MaxTicks, MaxCalls)

\* The step of response() that caller t takes is kept in `replies` when it
\* ends the call.
Logged(t) ==
    /\ replies' =
           IF tpc'[t] = "idle"
           THEN Append(replies,
                       [resp |-> tresp[t], out |-> tret'[t],
                        token |-> _token', token_expires |-> _token_expires',
                        rate_remaining |-> _rate_remaining',
                        rate_reset |-> _rate_reset'])
           ELSE replies
    /\ UNCHANGED <<ad_pc, ad_adapter, ad_resp, ad_out, ad_prev>>

\* A response whose window outlasts the token: 4000 seconds against the
\* 3540 the cached token is used for.
LongWindowHeaders ==
    [x_ratelimit_remaining |-> <<"1","0">>,
     x_ratelimit_reset     |-> <<"4","0","0","0">>]

\* The payloads and header sets of the responses that are handed to
\* response() twice: an image post and a long text post, a text post, a
\* payload of another shape, a text that is no JSON; faithful headers, a
\* window that outlasts the token, a non-finite value.
ReplayTexts ==
    {Decodes(NestedPayload(<<Posts[2], Posts[3]>>)),
     Decodes(NestedPayload(<<Posts[1]>>)),
     Decodes(JList(<<>>)),
     NotJson}
ReplayHeaders ==
    {FaithfulHeaders(UPSTREAM_LIMIT - 1, UPSTREAM_WINDOW),
     LongWindowHeaders,
     [x_ratelimit_remaining |-> <<"i","n","f">>, x_ratelimit_reset |-> <<"1">>]}

\* The same resp is to be handed to response() by every caller; calls of
\* request() and clock steps may come before, between and after them.
GovReplay == GovSent(ReplayTexts, ReplayHeaders, {Callers}, 0, MaxCalls - 1)

\* Caller 1's first request has gone out; further calls and clock steps
\* follow its response.
GovAfterFirstSend ==
    GovSent(UpstreamTexts,
            {FaithfulHeaders(UPSTREAM_LIMIT - 1, UPSTREAM_WINDOW),
             LongWindowHeaders},
            {{1}}, 0, 1)

----------------------------------------------------------------------------
(* main.py: perform_simple_search, fetch_raw_content and the /search        *)
(* handler                                                                  *)

\* seq[:n]
PySlice(seq, n) ==
    IF n >= 0 THEN SubSeq(seq, 1, IF n < Len(seq) THEN n ELSE Len(seq))
    ELSE SubSeq(seq, 1, IF Len(seq) + n > 0 THEN Len(seq) + n ELSE 0)

\* result.get("url") as a truth value
HasUrl(result) == "url" \in DOMAIN result /\ result.url # ""

\* [r["url"] for r in results if r.get("url")]
RECURSIVE UrlsOf(_)
UrlsOf(results) ==
    IF results = <<>> THEN <<>>
    ELSE (IF HasUrl(Head(results)) THEN <<Head(results).url>> ELSE <<>>)
             \o UrlsOf(Tail(results))

\* perform_simple_search: searxng_params (lines 262-274)
SimpleSearchParams(q_, user_engines_) ==
    LET engines_ == IF Truthy(user_engines_) THEN user_engines_
                    ELSE get_smart_engines(q_)
    IN  SearxngParams(q_, engines_, user_engines_)

\* perform_simple_search: what the try statement of lines 283-300 comes to
\* for a probe's outcome. A status other than 200 raises HTTPException in
\* the body; every exception raised in the body reaches the except clauses,
\* which raise HTTPException (504 or 500) were aiohttp.TimeoutError there.
SimpleSearchResult(o) ==
    IF o.kind = "response" /\ o.status = 200
    THEN [exc |-> "none", data |-> o.body]
    ELSE [exc |-> IF ExceptClauses(o.kind) = "logged" THEN "HTTPException"
                  ELSE ExceptClauses(o.kind),
          data |-> <<>>]

\* What fetch_raw_content(session, url, content_format) returns: the text
\* made of the page in the format asked for (here the pair of both), the
\* empty text of a page without text, or None for a status other than 200,
\* a timeout or any other exception.
FetchedText(url, content_format) ==
    [kind |-> "str", text |-> <<url, content_format>>]
EmptyText == [kind |-> "str", text |-> <<>>]
FetchedNone == [kind |-> "None", text |-> <<>>]
Pending == [kind |-> "pending", text |-> <<>>]
FetchOutcomes(url, content_format) ==
    {FetchedText(url, content_format), EmptyText, FetchedNone}

\* isinstance(content, str) and content
IsContent(content) == content.kind = "str" /\ content.text # <<>>

\* raw_contents of a batch that one failing fetch empties.
RawContents_AllOrNothing(urls, contents) ==
    IF \E i \in 1..Len(urls) : ~IsContent(contents[i])
    THEN <<>>
    ELSE [u \in {urls[i] : i \in 1..Len(urls)} |->
             contents[CHOOSE i \in 1..Len(urls) : urls[i] = u].text]

\* raw_contents that pairs each url with the content of the next task.
RawContents_Shifted(urls, contents) ==
    LET next(i) == (i % Len(urls)) + 1
        kept == {i \in 1..Len(urls) : IsContent(contents[next(i)])}
    IN  [u \in {urls[i] : i \in kept} |->
            contents[next(CHOOSE i \in kept :
                         urls[i] = u
                             /\ \A j \in kept : urls[j] = u => j <= i)].text]

\* raw_contents after the loop of lines 342-344 over zip(urls, contents):
\* a dict from url to content, the last content of a url winning.
RawContents(urls, contents) ==
    LET kept == {i \in 1..Len(urls) : IsContent(contents[i])}
    IN  [u \in {urls[i] : i \in kept} |->
            contents[CHOOSE i \in kept :
                         urls[i] = u
                             /\ \A j \in kept : urls[j] = u => j <= i].text]

\* TavilyResult(url, title, content, score, raw_content) as model_dump()
\* gives it. The score 0.9 - (i * 0.05) is counted in hundredths; None is
\* the raw_content of a result without one.
TavilyResult(i, result, include_raw_content, raw_contents) ==
    [url |-> result.url,
     title |-> Get(result, "title", ""),
     content |-> Get(result, "content", ""),
     score |-> 90 - (i * 5),
     raw_content |->
         IF include_raw_content /\ result.url \in DOMAIN raw_contents
         THEN raw_contents[result.url]
         ELSE None]

\* The loop of lines 346-362 from position i (counted from 0) of the slice.
RECURSIVE TavilyResults(_, _, _, _)
TavilyResults(slice, i, include_raw_content, raw_contents) ==
    IF i >= Len(slice) THEN <<>>
    ELSE (IF HasUrl(slice[i + 1])
          THEN <<TavilyResult(i, slice[i + 1], include_raw_content,
                              raw_contents)>>
          ELSE <<>>)
             \o TavilyResults(slice, i + 1, include_raw_content, raw_contents)

\* TavilyResponse(...).model_dump() (lines 366-376)
TavilyResponse(q_, results, response_time_, request_id_) ==
    [query |-> q_,
     follow_up_questions |-> None,
     answer |-> None,
     images |-> <<>>,
     results |-> results,
     response_time |-> response_time_,
     request_id |-> request_id_]

\* The requests of the model: the query "pizza" or "site:reddit.com pizza";
\* no engines, "", "google,wikipedia", "reddit", "brave, reddit" or the
\* latter with a no-break space;
\* max_results from -1 to MaxResults; both formats.
SearchQueries ==
    {<<"p","i","z","z","a">>,
     <<"s","i","t","e",":","r","e","d","d","i","t",".","c","o","m"," ","p","i","z","z","a">>}
SearchEngines ==
    {None, <<>>,
     <<"g","o","o","g","l","e",",","w","i","k","i","p","e","d","i","a">>,
     <<"r","e","d","d","i","t">>,
     <<"b","r","a","v","e",","," ","r","e","d","d","i","t">>,
     <<"b","r","a","v","e",",","u00a0","r","e","d","d","i","t">>}
MaxResults == 2
ContentFormats == {"text", "markdown"}

\* int(os.getenv("MAX_SEARCH_RETRIES", "3"))
SearchRetries == {3}

\* str(uuid.uuid4()) and time.time() - start_time
RequestIds == {"id1", "id2"}
ResponseTimes == {1, 2}

\* Results of the aggregator: without a url, with the url of ResultA, and
\* without a title.
ResultNoUrl == [title |-> "N", content |-> "n"]
ResultA2 == [url |-> "https://a.example/1", title |-> "A2"]
ResultNoTitle == [url |-> "https://c.example/3", content |-> "c"]

\* What the probe of perform_simple_search ends with.
SimpleOutcomes ==
    {[kind |-> "response", status |-> 200, body |-> b] :
         b \in {[results |-> <<ResultA, ResultNoUrl, ResultB>>],
                [results |-> <<ResultA, ResultA2>>],
                [results |-> <<ResultNoTitle, ResultB>>],
                [results |-> <<>>],
                [query |-> "q"]}}
    \cup {[kind |-> "response", status |-> 500, body |-> <<>>],
          [kind |-> "timeout", status |-> 0, body |-> <<>>]}

VARIABLES
    s_pc,               \* where the /search handler stands
    request,            \* the SearchRequest
    enable_anti_captcha,\* ENABLE_ANTI_CAPTCHA is "true"
    request_id,
    simple_probe,       \* the searxng_params perform_simple_search sent
    searxng_data,
    urls_to_scrape,
    page_contents,      \* what each fetch task has come to
    completed,          \* the fetch tasks ended, in the order they ended
    raw_contents,
    response,           \* the envelope returned
    s_exc               \* the exception raised out of the handler

searchVars == <<s_pc, request, enable_anti_captcha, request_id, simple_probe,
                searxng_data, urls_to_scrape, page_contents,
                completed, raw_contents,
                response, s_exc>>

SearchLocals ==
    /\ request_id = "" /\ simple_probe = <<>> /\ searxng_data = <<>>
    /\ urls_to_scrape = <<>> /\ page_contents = <<>> /\ raw_contents = <<>>
    /\ completed = <<>>
    /\ response = <<>> /\ s_exc = "none"

SearchInit ==
    /\ s_pc = "call"
    /\ request \in [query : SearchQueries,
                    max_results : -1..MaxResults,
                    include_raw_content : BOOLEAN,
                    content_format : ContentFormats,
                    engines : SearchEngines]
    /\ enable_anti_captcha \in BOOLEAN
    /\ SearchLocals

SearchOff ==
    /\ s_pc = "off"
    /\ request = <<>>
    /\ enable_anti_captcha = TRUE
    /\ SearchLocals

\* Lines 308-321: perform_search_with_retry is called.
CallRetry ==
    /\ s_pc = "call"
    /\ enable_anti_captcha
    /\ \E id \in RequestIds : request_id' = id
    /\ pc = "off"
    /\ pc' = "entry"
    /\ arg_query' = request.query
    /\ arg_engines' = request.engines
    /\ \E n \in SearchRetries : max_retries' = n
    /\ s_pc' = "search"
    /\ UNCHANGED <<query, user_engines, attempt, engines, searxng_params,
                   headers, delay, events, probes, outcome, only_empty,
                   all_failed, ret, exc>>
    /\ UNCHANGED <<request, enable_anti_captcha, simple_probe, searxng_data,
                   urls_to_scrape, page_contents,
                   completed, raw_contents, response,
                   s_exc>>

\* perform_search_with_retry has returned or raised (line 319).
RetryEnded ==
    /\ s_pc = "search"
    /\ \/ /\ pc = "returned"
          /\ searxng_data' = ret
          /\ s_pc' = "received"
          /\ s_exc' = s_exc
       \/ /\ pc = "raised"
          /\ searxng_data' = searxng_data
          /\ s_pc' = "failed"
          /\ s_exc' = exc
    /\ UNCHANGED retryVars
    /\ UNCHANGED <<request, enable_anti_captcha, request_id, simple_probe,
                   urls_to_scrape, page_contents,
                   completed, raw_contents, response>>

\* Lines 308-315 and 322-323: perform_simple_search is called.
CallSimple ==
    /\ s_pc = "call"
    /\ ~enable_anti_captcha
    /\ \E id \in RequestIds : request_id' = id
    /\ s_pc' = "simple"
    /\ UNCHANGED retryVars
    /\ UNCHANGED <<request, enable_anti_captcha, simple_probe, searxng_data,
                   urls_to_scrape, page_contents, completed, raw_contents,
                   response, s_exc>>

\* perform_simple_search, lines 260-290: the query and the engines are
\* rewritten, searxng_params is built and posted.
SimplePost ==
    /\ s_pc = "simple"
    /\ LET rewritten ==
               _rewrite_reddit_to_google(request.query, request.engines)
       IN  simple_probe' =
               SimpleSearchParams(rewritten.query, rewritten.engines)
    /\ s_pc' = "simple_sent"
    /\ UNCHANGED retryVars
    /\ UNCHANGED <<request, enable_anti_captcha, request_id, searxng_data,
                   urls_to_scrape, page_contents, completed, raw_contents,
                   response, s_exc>>

\* perform_simple_search, lines 291-301, and line 323: the reply has come,
\* or the post has failed; the body is returned and bound to searxng_data,
\* or an HTTPException is raised out of the handler.
SimpleEnded ==
    /\ s_pc = "simple_sent"
    /\ \E o \in SimpleOutcomes :
           LET r == SimpleSearchResult(o)
           IN  /\ searxng_data' = r.data
               /\ s_exc' = r.exc
               /\ s_pc' = IF r.exc = "none" THEN "received" ELSE "failed"
    /\ UNCHANGED retryVars
    /\ UNCHANGED <<request, enable_anti_captcha, request_id, simple_probe,
                   urls_to_scrape, page_contents, completed, raw_contents,
                   response>>

\* Lines 325-339: the urls to scrape, and one fetch task for each.
StartScrape ==
    /\ s_pc = "received"
    /\ LET searxng_results == Get(searxng_data, "results", <<>>)
       IN  IF request.include_raw_content /\ searxng_results # <<>>
           THEN /\ urls_to_scrape' =
                        UrlsOf(PySlice(searxng_results, request.max_results))
                /\ page_contents' =
                        [i \in 1..Len(urls_to_scrape') |-> Pending]
                /\ completed' = <<>>
                /\ s_pc' = "gather"
           ELSE /\ UNCHANGED <<urls_to_scrape, page_contents, completed>>
                /\ s_pc' = "assemble"
    /\ UNCHANGED retryVars
    /\ UNCHANGED <<request, enable_anti_captcha, request_id, simple_probe,
                   searxng_data, raw_contents, response, s_exc>>

\* fetch_raw_content (lines 67-140): one of the fetch tasks ends.
Fetch(i) ==
    /\ s_pc = "gather"
    /\ i \in 1..Len(page_contents)
    /\ page_contents[i] = Pending
    /\ \E c \in FetchOutcomes(urls_to_scrape[i], request.content_format) :
           page_contents' = [page_contents EXCEPT ![i] = c]
    /\ completed' = Append(completed, i)
    /\ UNCHANGED retryVars
    /\ UNCHANGED <<s_pc, request, enable_anti_captcha, request_id,
                   simple_probe, searxng_data, urls_to_scrape, raw_contents,
                   response, s_exc>>

\* Lines 340-344: every task has ended; raw_contents is filled.
Gathered ==
    /\ s_pc = "gather"
    /\ \A i \in 1..Len(page_contents) : page_contents[i] # Pending
    /\ raw_contents' = RawContents(urls_to_scrape, page_contents)
    /\ s_pc' = "assemble"
    /\ UNCHANGED retryVars
    /\ UNCHANGED <<request, enable_anti_captcha, request_id, simple_probe,
                   searxng_data, urls_to_scrape, page_contents,
                   completed, response,
                   s_exc>>

\* Lines 346-378: the envelope.
Assemble ==
    /\ s_pc = "assemble"
    /\ \E response_time \in ResponseTimes :
           response' =
               TavilyResponse(request.query,
                   TavilyResults(
                       PySlice(Get(searxng_data, "results", <<>>),
                               request.max_results),
                       0, request.include_raw_content, raw_contents),
                   response_time, request_id)
    /\ s_pc' = "done"
    /\ UNCHANGED retryVars
    /\ UNCHANGED <<request, enable_anti_captcha, request_id, simple_probe,
                   searxng_data, urls_to_scrape, page_contents,
                   completed, raw_contents,
                   s_exc>>

----------------------------------------------------------------------------
(* Specifications. Each one runs one component; the others stay as they
   are when never called.                                                  *)

vars == <<selVars, retryVars, govVars, adVars, searchVars>>

\* get_smart_engines on every query.
SelectorInit == SelInit /\ RetryOff /\ GovOff /\ AdOff /\ SearchOff
SelectorNext == SelectEngines /\ UNCHANGED <<retryVars, govVars, adVars, searchVars>>
SpecSelector == SelectorInit /\ [][SelectorNext]_vars

\* One call of perform_search_with_retry.
Init == RetryInit /\ SelOff /\ GovOff /\ AdOff /\ SearchOff
Next ==
    \/ Enter /\ UNCHANGED <<selVars, govVars, adVars, searchVars>>
    \/ BeginAttempt /\ UNCHANGED <<selVars, govVars, adVars, searchVars>>
    \/ Sleep /\ UNCHANGED <<selVars, govVars, adVars, searchVars>>
    \/ Post /\ UNCHANGED <<selVars, govVars, adVars, searchVars>>
    \/ Receive /\ UNCHANGED <<selVars, govVars, adVars, searchVars>>
    \/ Exhausted /\ UNCHANGED <<selVars, govVars, adVars, searchVars>>
Spec == Init /\ [][Next]_vars

\* Callers of _get_token() on the shared token cache, and the clock.
TokenInit ==
    /\ GovLoaded
    /\ up_remaining = UPSTREAM_LIMIT
    /\ up_reset = START_TIME + UPSTREAM_WINDOW
    /\ ncalls = 0
    /\ SelOff /\ RetryOff /\ AdOff /\ SearchOff
TokenNext ==
    \/ \E t \in Callers :
           CallGetToken(t) /\ UNCHANGED <<selVars, retryVars, adVars, searchVars>>
    \/ \E t \in Callers :
           CheckExpires(t) /\ UNCHANGED <<selVars, retryVars, adVars, searchVars>>
    \/ \E t \in Callers :
           ReturnCached(t) /\ UNCHANGED <<selVars, retryVars, adVars, searchVars>>
    \/ \E t \in Callers :
           Exchange(t, TokenReplies(Len(issued) + 1))
               /\ UNCHANGED <<selVars, retryVars, adVars, searchVars>>
    \/ \E t \in Callers :
           StoreToken(t) /\ UNCHANGED <<selVars, retryVars, adVars, searchVars>>
    \/ \E t \in Callers :
           ExpiryClock(t) /\ UNCHANGED <<selVars, retryVars, adVars, searchVars>>
    \/ \E t \in Callers :
           StoreExpiry(t) /\ UNCHANGED <<selVars, retryVars, adVars, searchVars>>
    \/ \E t \in Callers :
           ReturnToken(t) /\ UNCHANGED <<selVars, retryVars, adVars, searchVars>>
    \/ \E d \in TokenTicks :
           Tick(d) /\ UNCHANGED <<selVars, retryVars, adVars, searchVars>>
SpecToken == TokenInit /\ [][TokenNext]_vars

\* Callers of request() and response() on the shared rate budget and token
\* cache, the upstream and the clock.
GovernorInit == GovInit /\ SelOff /\ RetryOff /\ AdOff /\ SearchOff
GovernorNext ==
    \/ \E t \in Callers :
           Request(t) /\ UNCHANGED <<selVars, retryVars, adVars, searchVars>>
    \/ \E t \in Callers :
           CheckReset(t) /\ UNCHANGED <<selVars, retryVars, adVars, searchVars>>
    \/ \E t \in Callers :
           CheckRemaining(t) /\ UNCHANGED <<selVars, retryVars, adVars, searchVars>>
    \/ \E t \in Callers :
           RequestGetToken(t) /\ UNCHANGED <<selVars, retryVars, adVars, searchVars>>
    \/ \E t \in Callers :
           CheckExpires(t) /\ UNCHANGED <<selVars, retryVars, adVars, searchVars>>
    \/ \E t \in Callers :
           ReturnCached(t) /\ UNCHANGED <<selVars, retryVars, adVars, searchVars>>
    \/ \E t \in Callers :
           Exchange(t, GovernorTokenReplies(Len(issued) + 1))
               /\ UNCHANGED <<selVars, retryVars, adVars, searchVars>>
    \/ \E t \in Callers :
           StoreToken(t) /\ UNCHANGED <<selVars, retryVars, adVars, searchVars>>
    \/ \E t \in Callers :
           ExpiryClock(t) /\ UNCHANGED <<selVars, retryVars, adVars, searchVars>>
    \/ \E t \in Callers :
           StoreExpiry(t) /\ UNCHANGED <<selVars, retryVars, adVars, searchVars>>
    \/ \E t \in Callers :
           ReturnToken(t) /\ UNCHANGED <<selVars, retryVars, adVars, searchVars>>
    \/ \E t \in Callers :
           Build(t) /\ UNCHANGED <<selVars, retryVars, adVars, searchVars>>
    \/ \E t \in Callers :
           Send(t) /\ UNCHANGED <<selVars, retryVars, adVars, searchVars>>
    \/ \E t \in Callers :
           ResponseRemaining(t) /\ UNCHANGED <<selVars, retryVars, adVars, searchVars>>
    \/ \E t \in Callers :
           ResetClock(t) /\ UNCHANGED <<selVars, retryVars, adVars, searchVars>>
    \/ \E t \in Callers :
           ResponseReset(t) /\ UNCHANGED <<selVars, retryVars, adVars, searchVars>>
    \/ \E t \in Callers :
           ResponseParse(t) /\ UNCHANGED <<selVars, retryVars, adVars, searchVars>>
    \/ \E d \in GovernorTicks :
           Tick(d) /\ UNCHANGED <<selVars, retryVars, adVars, searchVars>>
SpecGovernor == GovernorInit /\ [][GovernorNext]_vars

\* The calls of request() and response() that follow a first response, with
\* clock steps long enough for the cached token to expire.
ThrottleInit == GovAfterFirstSend /\ SelOff /\ RetryOff /\ AdOff /\ SearchOff
ThrottleNext ==
    \/ GovernorNext
    \/ \E d \in TokenTicks \ GovernorTicks :
           Tick(d) /\ UNCHANGED <<selVars, retryVars, adVars, searchVars>>
SpecThrottle == ThrottleInit /\ [][ThrottleNext]_vars

\* response() is called twice on one resp: by reddit.py and sources_local.py
\* one call after the other, by reddit_api.py in two callers, with calls of
\* request() and _get_token() and steps of the clock before, between and
\* after the two.
ReplayInit ==
    /\ SelOff /\ RetryOff /\ SearchOff
    /\ \/ AdInit /\ GovOff
       \/ AdOff /\ GovReplay
ReplayNext ==
    \/ RedditResponse /\ UNCHANGED <<selVars, retryVars, govVars, searchVars>>
    \/ SourcesLocalResponse /\ UNCHANGED <<selVars, retryVars, govVars, searchVars>>
    \/ AdRepeat /\ UNCHANGED <<selVars, retryVars, govVars, searchVars>>
    \/ \E t \in Callers :
           Request(t) /\ UNCHANGED <<selVars, retryVars, adVars, searchVars>>
    \/ \E t \in Callers :
           CheckReset(t) /\ UNCHANGED <<selVars, retryVars, adVars, searchVars>>
    \/ \E t \in Callers :
           CheckRemaining(t) /\ UNCHANGED <<selVars, retryVars, adVars, searchVars>>
    \/ \E t \in Callers :
           RequestGetToken(t) /\ UNCHANGED <<selVars, retryVars, adVars, searchVars>>
    \/ \E t \in Callers :
           CheckExpires(t) /\ UNCHANGED <<selVars, retryVars, adVars, searchVars>>
    \/ \E t \in Callers :
           ReturnCached(t) /\ UNCHANGED <<selVars, retryVars, adVars, searchVars>>
    \/ \E t \in Callers :
           Exchange(t, GovernorTokenReplies(Len(issued) + 1))
               /\ UNCHANGED <<selVars, retryVars, adVars, searchVars>>
    \/ \E t \in Callers :
           StoreToken(t) /\ UNCHANGED <<selVars, retryVars, adVars, searchVars>>
    \/ \E t \in Callers :
           ExpiryClock(t) /\ UNCHANGED <<selVars, retryVars, adVars, searchVars>>
    \/ \E t \in Callers :
           StoreExpiry(t) /\ UNCHANGED <<selVars, retryVars, adVars, searchVars>>
    \/ \E t \in Callers :
           ReturnToken(t) /\ UNCHANGED <<selVars, retryVars, adVars, searchVars>>
    \/ \E t \in Callers :
           Build(t) /\ UNCHANGED <<selVars, retryVars, adVars, searchVars>>
    \/ \E t \in Callers :
           Send(t) /\ UNCHANGED <<selVars, retryVars, adVars, searchVars>>
    \/ \E t \in Callers :
           ResponseRemaining(t) /\ Logged(t)
               /\ UNCHANGED <<selVars, retryVars, searchVars>>
    \/ \E t \in Callers :
           ResetClock(t) /\ Logged(t)
               /\ UNCHANGED <<selVars, retryVars, searchVars>>
    \/ \E t \in Callers :
           ResponseReset(t) /\ Logged(t)
               /\ UNCHANGED <<selVars, retryVars, searchVars>>
    \/ \E t \in Callers :
           ResponseParse(t) /\ Logged(t)
               /\ UNCHANGED <<selVars, retryVars, searchVars>>
    \/ \E d \in TokenTicks :
           Tick(d) /\ UNCHANGED <<selVars, retryVars, adVars, searchVars>>
SpecReplay == ReplayInit /\ [][ReplayNext]_vars

\* One call of response(resp) of each of the three adapters.
AdaptersInit ==
    /\ SelOff /\ RetryOff /\ SearchOff
    /\ \/ AdInit /\ GovOff
       \/ AdOff /\ GovAtResponse
AdaptersNext ==
    \/ RedditResponse /\ UNCHANGED <<selVars, retryVars, govVars, searchVars>>
    \/ SourcesLocalResponse /\ UNCHANGED <<selVars, retryVars, govVars, searchVars>>
    \/ AdRepeat /\ UNCHANGED <<selVars, retryVars, govVars, searchVars>>
    \/ \E t \in Callers :
           ResponseRemaining(t) /\ UNCHANGED <<selVars, retryVars, adVars, searchVars>>
    \/ \E t \in Callers :
           ResetClock(t) /\ UNCHANGED <<selVars, retryVars, adVars, searchVars>>
    \/ \E t \in Callers :
           ResponseReset(t) /\ UNCHANGED <<selVars, retryVars, adVars, searchVars>>
    \/ \E t \in Callers :
           ResponseParse(t) /\ UNCHANGED <<selVars, retryVars, adVars, searchVars>>
SpecAdapters == AdaptersInit /\ [][AdaptersNext]_vars

\* One call of the /search handler, with the call of
\* perform_search_with_retry or perform_simple_search it makes.
HandlerInit == SearchInit /\ RetryOff /\ SelOff /\ GovOff /\ AdOff
HandlerNext ==
    \/ CallRetry /\ UNCHANGED <<selVars, govVars, adVars>>
    \/ Enter /\ UNCHANGED <<selVars, govVars, adVars, searchVars>>
    \/ BeginAttempt /\ UNCHANGED <<selVars, govVars, adVars, searchVars>>
    \/ Sleep /\ UNCHANGED <<selVars, govVars, adVars, searchVars>>
    \/ Post /\ UNCHANGED <<selVars, govVars, adVars, searchVars>>
    \/ Receive /\ UNCHANGED <<selVars, govVars, adVars, searchVars>>
    \/ Exhausted /\ UNCHANGED <<selVars, govVars, adVars, searchVars>>
    \/ RetryEnded /\ UNCHANGED <<selVars, govVars, adVars>>
    \/ CallSimple /\ UNCHANGED <<selVars, govVars, adVars>>
    \/ SimplePost /\ UNCHANGED <<selVars, govVars, adVars>>
    \/ SimpleEnded /\ UNCHANGED <<selVars, govVars, adVars>>
    \/ StartScrape /\ UNCHANGED <<selVars, govVars, adVars>>
    \/ \E i \in 1..MaxResults :
           Fetch(i) /\ UNCHANGED <<selVars, govVars, adVars>>
    \/ Gathered /\ UNCHANGED <<selVars, govVars, adVars>>
    \/ Assemble /\ UNCHANGED <<selVars, govVars, adVars>>
SpecHandler == HandlerInit /\ [][HandlerNext]_vars

----------------------------------------------------------------------------
(* The governor: claims.                                                   *)


\* Caller t takes a step from one of these places.
StepsIn(t, places) == tpc[t] \in places /\ tpc'[t] # tpc[t]

\* A step in which request() is called (the only calls counted while
\* request() and response() run), a step of its _is_rate_limited(), and the
\* step in which the call is throttled: None is returned.
RequestIsCalled == ncalls' = ncalls + 1
RateCheckStep(t) ==
    \/ tpc[t] = "idle" /\ tpc'[t] = "check_reset"
    \/ StepsIn(t, {"check_reset", "check_remaining"})
Throttles(t) == tpc[t] = "check_remaining" /\ tpc'[t] = "idle"
Throttled(t) ==
    /\ tpc[t] = "idle"
    /\ tret[t] = [call |-> "request", exc |-> "none", returned |-> "None"]

\* C4: whatever the interleaving of the callers' request() and response()
\* steps, no request goes out to the upstream when the upstream's true
\* remaining quota of the current window is used up.
C4_NoRequestBeyondQuota == ~overrun

\* C5: a call of request() is throttled by _is_rate_limited() exactly when
\* the clock, as the call read it, has not passed the reset time last
\* recorded and the remaining quota last recorded is below the safety floor
\* of 50: the check reads the clock when the call is made, passes at line
\* 83 exactly when that clock value is past _rate_reset, and otherwise
\* throttles at line 85 exactly when _rate_remaining is below 50; so with
\* the recorded budget below the floor every call is throttled up to the
\* reset time and none after it, without a new response; and before any
\* response was observed no call is throttled.
C5_ThrottledOnlyBelowFloorUntilReset ==
    [][\A t \in Callers :
          /\ (tpc[t] = "idle" /\ RequestIsCalled /\ tpc'[t] # "idle") =>
                 tpc'[t] = "check_reset" /\ tnow'[t] = now
          /\ StepsIn(t, {"check_reset"}) =>
                 /\ tpc'[t] = "get_token" <=> tnow[t] > _rate_reset
                 /\ tpc'[t] = "check_remaining" <=> ~(tnow[t] > _rate_reset)
          /\ StepsIn(t, {"check_remaining"}) =>
                 /\ Throttles(t) <=> _rate_remaining < 50
                 /\ tpc'[t] = "get_token" <=> ~(_rate_remaining < 50)
          /\ Throttles(t) => observed
          /\ (Throttled(t)' /\ ~Throttled(t)) => Throttles(t)]_vars

\* C5 witness: a response has recorded a remaining quota below the floor;
\* one caller's request was throttled, and now that the clock has passed the
\* recorded reset time another caller's request has passed the check.
C5_Witness ==
    /\ observed
    /\ _rate_remaining < 50
    /\ now > _rate_reset
    /\ ticks = MaxTicks
    /\ \E t \in Callers, u \in Callers :
           /\ t # u
           /\ tpc[t] = "idle"
           /\ tret[t].call = "request"
           /\ tret[t].exc = "none"
           /\ tret[t].returned = "None"
           /\ tpc[u] = "get_token"

\* A call of _get_token() by t has returned a token.
TokenReturned(t) ==
    /\ tpc[t] = "idle"
    /\ tret[t].call = "_get_token"
    /\ tret[t].exc = "none"

\* The call found, at line 55, a token cached by an exchange and the clock
\* before the cached expiry.
CalledBeforeCachedExpiry(t) ==
    /\ tchk[t].token # NO_TOKEN
    /\ tchk[t].at < tchk[t].expires

\* C6: a call of _get_token() made after an exchange has filled the cache
\* and before the cached expiry makes no exchange, and it returns the cached
\* token (the token it found, unless another call's exchange replaced the
\* cached token before line 56 read it).
C6_CachedTokenWithoutExchange ==
    \A t \in Callers :
        (TokenReturned(t) /\ CalledBeforeCachedExpiry(t)) =>
            /\ ~texch[t]
            /\ ~tover[t] => tret[t].value = tchk[t].token

\* C6 witness: two calls were made, the second within the cached lifetime;
\* one exchange was made in all and the second call returned its token.
C6_Witness ==
    /\ ncalls = 2
    /\ Len(issued) = 1
    /\ \E t \in Callers :
           /\ TokenReturned(t)
           /\ CalledBeforeCachedExpiry(t)
           /\ ~tover[t]
           /\ ~texch[t]
           /\ tret[t].value = 1
           /\ tchk[t].at > START_TIME

\* C7: every token a call of _get_token() returns was obtained by an
\* exchange within that call, or is a cached token whose own expiry (the
\* time its own call stored: exchange time + TTL - 60) was still in the
\* future when the call looked at the cache.
C7_NoTokenPastItsOwnExpiry ==
    \A t \in Callers :
        TokenReturned(t) =>
            \/ texch[t]
            \/ issued[tret[t].value] = 0
            \/ tchk[t].at < issued[tret[t].value]

----------------------------------------------------------------------------
(* The result adapters: claims.                                            *)

\* A non-empty string.
NonEmptyText(v) == v.t = "str" /\ v.v # <<>>

\* The value of field f of a payload object, null when it has none.
Field(v, f) == IF v.t = "dict" /\ f \in DOMAIN v.v THEN v.v[f] ELSE JNull

\* The list at a place of the payload, empty when there is no list.
ListOf(v) == IF v.t = "list" THEN v.v ELSE <<>>

\* The input items of a payload, as each adapter finds them: the posts of
\* {"data": [...]}, the data of the children of
\* {"data": {"children": [...]}}, the items of {"results": [...]}.
InputItems(adapter, text) ==
    IF ~text.valid THEN <<>>
    ELSE CASE adapter = "reddit" -> ListOf(Field(text.value, "data"))
           [] adapter = "reddit_api" ->
                  LET children ==
                          ListOf(Field(Field(text.value, "data"), "children"))
                  IN  [i \in 1..Len(children) |-> Field(children[i], "data")]
           [] adapter = "sources_local" ->
                  ListOf(Field(text.value, "results"))

\* The URL an adapter makes of an item that has a usable link: the
\* permalink on base_url, or the item's url.
LinkOf(adapter, item) ==
    IF adapter = "sources_local" THEN Field(item, "url")
    ELSE JStr(base_url \o Field(item, "permalink").v)

\* The item has a title and a link.
Usable(adapter, item) ==
    /\ NonEmptyText(Field(item, "title"))
    /\ NonEmptyText(Field(item,
           IF adapter = "sources_local" THEN "url" ELSE "permalink"))

\* What C10 says of the records an adapter returned for a payload.
EmitsOnlyUsable(adapter, text, results) ==
    LET items == InputItems(adapter, text)
    IN  /\ Len(results) <= Len(items)
        /\ Len(results)
               <= Cardinality({i \in 1..Len(items) : Usable(adapter, items[i])})
        /\ \A k \in 1..Len(results) :
               /\ NonEmptyText(results[k].url)
               /\ NonEmptyText(results[k].title)
               /\ \E i \in 1..Len(items) :
                      /\ Usable(adapter, items[i])
                      /\ results[k].title = Field(items[i], "title")
                      /\ results[k].url = LinkOf(adapter, items[i])

\* C10: for each of the three adapters' response() and every input payload,
\* the records emitted are at most as many as the input items, every
\* emitted record has a non-empty url and a non-empty title, and each stems
\* from an input item that has a title and a permalink (or url); an item
\* lacking either is never emitted.
C10_OnlyItemsWithUrlAndTitleEmitted ==
    /\ (ad_pc = "done" /\ ad_out.exc = "none") =>
           EmitsOnlyUsable(ad_adapter, ad_resp.text, ad_out.results)
    /\ \A t \in Callers :
           (tpc[t] = "idle" /\ tret[t].call = "response"
                /\ tret[t].exc = "none") =>
               EmitsOnlyUsable("reddit_api", tresp[t].text, tret[t].results)

\* C10 witness: reddit.py's response() has returned for a payload of two
\* posts, one of them without a title or permalink: one record was emitted.
C10_Witness ==
    /\ ad_pc = "done"
    /\ ad_adapter = "reddit"
    /\ ad_out.exc = "none"
    /\ Len(InputItems(ad_adapter, ad_resp.text)) = 2
    /\ \E i \in 1..2 :
           ~Usable(ad_adapter, InputItems(ad_adapter, ad_resp.text)[i])
    /\ Len(ad_out.results) = 1

----------------------------------------------------------------------------
(* Claims on failures, bounds and the order of the results.                 *)

\* A call of reddit_api.py's response() by t has ended.
ResponseEnded(t) == tpc[t] = "idle" /\ tret[t].call = "response"

\* The exceptions that decoding a body and walking the decoded value raise.
PARSE_EXCEPTIONS == {"JSONDecodeError", "AttributeError", "TypeError"}

\* C11: for each of the three adapters, a response body that does not
\* decode to the expected JSON shape gives an empty result list, and no
\* exception of the parse reaches the caller of response().
C11_ParseFailuresNeverRaise ==
    /\ ad_pc = "done" => ad_out.exc \notin PARSE_EXCEPTIONS
    /\ \A t \in Callers :
           ResponseEnded(t) => tret[t].exc \notin PARSE_EXCEPTIONS


\* The most results a request asks for: none when max_results is negative.
Requested == IF request.max_results > 0 THEN request.max_results ELSE 0

\* C12: the envelope of /search never holds more than max_results results,
\* and no more than max_results fetch tasks are started, for every integer
\* max_results of the request (0 and the negative ones included, which ask
\* for no result at all).
C12_EnvelopeBoundedByMaxResults ==
    /\ s_pc \in {"gather", "assemble", "done"} =>
           Len(page_contents) <= Requested
    /\ s_pc = "done" => Len(response.results) <= Requested

\* The request of /search names its engines.
EnginesChosen == Truthy(request.engines)

\* The key categories is in a probe's parameters.
HasCategories(params) ==
    "categories" \in DOMAIN params /\ params.categories = "general"

\* C13: a probe carries a category filter if and only if the caller did not
\* choose the engines: with an engine list no attempt carries the key
\* categories, without one every attempt does, the smart-selected and the
\* fallback ones alike, and so does the probe of perform_simple_search.
C13_CategoriesIffEnginesNotChosen ==
    s_pc # "off" =>
        /\ \A i \in 1..Len(probes) :
               /\ HasCategories(probes[i].params) <=> ~EnginesChosen
               /\ "categories" \in DOMAIN probes[i].params <=> ~EnginesChosen
        /\ simple_probe # <<>> =>
               /\ HasCategories(simple_probe) <=> ~EnginesChosen
               /\ "categories" \in DOMAIN simple_probe <=> ~EnginesChosen

\* C13 witness: a call without an engine list has sent its smart-selected
\* probe and a fallback probe, both with the category filter.
C13_Witness ==
    /\ s_pc = "search" /\ ~EnginesChosen
    /\ Len(probes) >= 2
    /\ probes[1].params.engines # probes[2].params.engines
    /\ HasCategories(probes[1].params) /\ HasCategories(probes[2].params)

\* The content of every record of a list is a text of at most n characters.
ContentWithin(results, n) ==
    \A k \in 1..Len(results) :
        "content" \in DOMAIN results[k] =>
            /\ results[k].content.t = "str"
            /\ Len(results[k].content.v) <= n

\* C14: every record the flat-list and the nested-listing adapter emit has
\* a content of at most 500 characters: a longer selftext is cut and ends
\* with an ellipsis within that length.
C14_ContentAtMost500 ==
    /\ (ad_pc = "done" /\ ad_adapter = "reddit" /\ ad_out.exc = "none") =>
           ContentWithin(ad_out.results, 500)
    /\ \A t \in Callers :
           (ResponseEnded(t) /\ tret[t].exc = "none") =>
               ContentWithin(tret[t].results, 500)

\* /search has come past the fetches of a request that asks for raw content.
Enriched ==
    /\ s_pc = "done"
    /\ request.include_raw_content
    /\ Get(searxng_data, "results", <<>>) # <<>>

\* A fetch for this url has ended with a text.
FetchedFor(url) ==
    \E i \in 1..Len(urls_to_scrape) :
        urls_to_scrape[i] = url /\ IsContent(page_contents[i])

\* C15: with include_raw_content, a fetch that fails, times out or ends
\* with another status than 200 leaves the results of its url without
\* raw_content unless another fetch of that url gave a text, leaves every
\* other result with the text fetched for its own url, removes no result
\* from the envelope, and never makes /search fail.
C15_FetchFailureIsolated ==
    /\ s_pc \in {"gather", "assemble", "done"} => s_exc = "none"
    /\ Enriched =>
           /\ Len(response.results) = Len(urls_to_scrape)
           /\ \A k \in 1..Len(response.results) :
                  LET res == response.results[k]
                  IN  /\ res.url = urls_to_scrape[k]
                      /\ res.raw_content = None <=> ~FetchedFor(res.url)
                      /\ FetchedFor(res.url) =>
                             res.raw_content
                                 = FetchedText(res.url,
                                               request.content_format).text

\* C15 witness: of two results with different urls the fetch for the first
\* gave nothing and the fetch for the second a text; the envelope holds
\* both, the first without raw_content and the second with its text.
C15_Witness ==
    /\ Enriched
    /\ Len(urls_to_scrape) = 2
    /\ urls_to_scrape[1] # urls_to_scrape[2]
    /\ page_contents[1] = FetchedNone
    /\ IsContent(page_contents[2])
    /\ Len(response.results) = 2
    /\ response.results[1].raw_content = None
    /\ response.results[2].raw_content # None

\* The response carries this rate-limit header with a value that is no
\* finite number.
Malformed(resp, header) ==
    /\ header \in DOMAIN resp.headers
    /\ PyFloat(resp.headers[header]).kind # "finite"

\* C16: the update of the rate-limit state is never fatal: a malformed
\* x-ratelimit-remaining or x-ratelimit-reset value, a non-finite one
\* included, is ignored, the field it stands for keeps its prior value, and
\* response() raises nothing because of it and goes on to parse the payload.
C16_MalformedHeaderIgnored ==
    \A t \in Callers :
        (ResponseEnded(t)
             /\ (Malformed(tresp[t], "x_ratelimit_remaining")
                     \/ Malformed(tresp[t], "x_ratelimit_reset"))) =>
            /\ tret[t].exc \notin {"ValueError", "TypeError", "OverflowError"}
            /\ "results" \in DOMAIN tret[t]
            /\ Malformed(tresp[t], "x_ratelimit_remaining") =>
                   _rate_remaining = INITIAL_RATE_REMAINING
            /\ Malformed(tresp[t], "x_ratelimit_reset") =>
                   _rate_reset = INITIAL_RATE_RESET

\* engines.split(",")[:2]
FirstTwo(engines_) == PySlice(Split(engines_, ","), 2)

\* get_smart_engines has run on the query made of these words.
Selected(ws) == sel_pc = "done" /\ sel_query = JoinWords(ws)

\* C17: the priorities the repository's test asserts: the engine set of
\* get_smart_engines lists the specialist engine among its first two
\* entries: arxiv for "quantum research paper", reddit for "python
\* programming", wikipedia for "Einstein biography" and wikidata for
\* "population statistics".
C17_SpecialistAmongFirstTwo ==
    /\ (sel_pc = "done" /\ sel_query = QUANTUM_RESEARCH_PAPER) =>
           InList(FirstTwo(sel_engines), <<"a","r","x","i","v">>)
    /\ Selected(<<<<"p","y","t","h","o","n">>,
                  <<"p","r","o","g","r","a","m","m","i","n","g">>>>) =>
           InList(FirstTwo(sel_engines), REDDIT)
    /\ Selected(<<<<"E","i","n","s","t","e","i","n">>,
                  <<"b","i","o","g","r","a","p","h","y">>>>) =>
           InList(FirstTwo(sel_engines),
                  <<"w","i","k","i","p","e","d","i","a">>)
    /\ Selected(<<<<"p","o","p","u","l","a","t","i","o","n">>,
                  <<"s","t","a","t","i","s","t","i","c","s">>>>) =>
           InList(FirstTwo(sel_engines),
                  <<"w","i","k","i","d","a","t","a">>)

\* The fields of an image record.
IMAGE_FIELDS == {"img_src", "thumbnail_src", "template"}

\* The post has a title and a permalink, and its thumbnail is absent, empty
\* or one of the sentinels; its selftext is absent or a text.
TextPost(post) ==
    /\ post.t = "dict"
    /\ Usable("reddit", post)
    /\ \/ "thumbnail" \notin DOMAIN post.v
       \/ /\ post.v.thumbnail.t = "str"
          /\ post.v.thumbnail.v
                 \in {<<>>, <<"s","e","l","f">>, <<"d","e","f","a","u","l","t">>,
                      <<"n","s","f","w">>, <<"s","p","o","i","l","e","r">>}
    /\ "selftext" \in DOMAIN post.v => post.v.selftext.t = "str"

\* The selftext of a post, "" when it has none.
SelftextOf(post) ==
    IF "selftext" \in DOMAIN post.v THEN post.v.selftext.v ELSE <<>>

\* The thumbnail of the post is a URL with a host and a path.
RealUrlThumbnail(post) ==
    /\ post.t = "dict"
    /\ "thumbnail" \in DOMAIN post.v
    /\ post.v.thumbnail.t = "str"
    /\ urlparse(post.v.thumbnail.v).netloc # <<>>
    /\ urlparse(post.v.thumbnail.v).path # <<>>

\* The places of the records made of a post, found by their url.
RecordsOf(results, post) ==
    {k \in 1..Len(results) : results[k].url = LinkOf("reddit", post)}

\* What C18 says of the records reddit.py returned for a list of posts;
\* SameContent(content, selftext) is what it says of a text record's
\* content.
Classified(items, results, SameContent(_, _)) ==
    /\ \A i \in 1..Len(items) :
           TextPost(items[i]) =>
               /\ Cardinality(RecordsOf(results, items[i]))
                      = Cardinality({j \in 1..Len(items) :
                                        items[j] = items[i]})
               /\ \A k \in RecordsOf(results, items[i]) :
                      /\ DOMAIN results[k] \cap IMAGE_FIELDS = {}
                      /\ "content" \in DOMAIN results[k]
                      /\ results[k].content.t = "str"
                      /\ SameContent(results[k].content.v,
                                     SelftextOf(items[i]))
    /\ \A k \in 1..Len(results) :
           DOMAIN results[k] \cap IMAGE_FIELDS # {} =>
               \E i \in 1..Len(items) :
                   /\ Usable("reddit", items[i])
                   /\ RealUrlThumbnail(items[i])
                   /\ results[k].url = LinkOf("reddit", items[i])

\* reddit.py's response() has returned.
RedditReturned ==
    ad_pc = "done" /\ ad_adapter = "reddit" /\ ad_out.exc = "none"

EqualText(content, selftext) == content = selftext

\* The content is the selftext of at most 500 characters, and begins with
\* the first 500 characters of a longer one.
EqualOrCut(content, selftext) ==
    IF Len(selftext) <= 500 THEN content = selftext
    ELSE /\ Len(content) >= 500
         /\ SubSeq(content, 1, 500) = SubSeq(selftext, 1, 500)

\* C18 as stated: a post with a title and a permalink whose thumbnail is
\* empty, absent or a sentinel is emitted as exactly one text record without
\* image fields and with content equal to its selftext, "" when it has
\* none; only a thumbnail that is a real URL yields an image record.
C18_TextRecordCarriesSelftext ==
    RedditReturned =>
        Classified(InputItems("reddit", ad_resp.text), ad_out.results,
                   EqualText)

\* C18, amended: as above, with content equal to the selftext when that has
\* at most 500 characters and beginning with its first 500 characters when
\* it is longer.
C18_TextRecordCarriesSelftextOrItsCut ==
    RedditReturned =>
        Classified(InputItems("reddit", ad_resp.text), ad_out.results,
                   EqualOrCut)

\* C18 witness: reddit.py has returned for a payload with a post whose
\* thumbnail is "self" and a post without thumbnail whose selftext has more
\* than 500 characters: two text records, the second with the cut text.
C18_Witness ==
    /\ RedditReturned
    /\ InputItems("reddit", ad_resp.text) = <<Posts[1], Posts[3]>>
    /\ Len(ad_out.results) = 2
    /\ ad_out.results[1].content.v = <<>>
    /\ Len(ad_out.results[2].content.v) > 500
    /\ ad_out.results[2].content.v # SelftextOf(Posts[3])

\* The record has an image field.
IsImageRecord(record) == DOMAIN record \cap IMAGE_FIELDS # {}

\* The records are made of the usable posts, one of each, and f tells for
\* each record the place of its post in the input.
MadeOf(items, results, f) ==
    /\ \A k, l \in 1..Len(results) : k # l => f[k] # f[l]
    /\ \A k \in 1..Len(results) :
           /\ Usable("reddit", items[f[k]])
           /\ results[k].url = LinkOf("reddit", items[f[k]])
           /\ results[k].title = Field(items[f[k]], "title")

\* C19: in the list reddit.py returns every image record precedes every
\* text record, and the image records among themselves and the text
\* records among themselves keep the order their posts have in the input.
C19_ImagesFirstInInputOrder ==
    RedditReturned =>
        LET items == InputItems("reddit", ad_resp.text)
            results == ad_out.results
        IN  /\ \A k, l \in 1..Len(results) :
                   (k < l /\ IsImageRecord(results[l])) =>
                       IsImageRecord(results[k])
            /\ Len(results)
                   = Cardinality({i \in 1..Len(items) :
                                     Usable("reddit", items[i])})
            /\ \E f \in [1..Len(results) -> 1..Len(items)] :
                   /\ MadeOf(items, results, f)
                   /\ \A k, l \in 1..Len(results) :
                          (k < l /\ IsImageRecord(results[k])
                                     = IsImageRecord(results[l])) =>
                              f[k] < f[l]

\* C19 witness: for a text post followed by an image post the list returned
\* holds the image record first and the text record second.
C19_Witness ==
    /\ RedditReturned
    /\ InputItems("reddit", ad_resp.text) = <<Posts[1], Posts[2]>>
    /\ Len(ad_out.results) = 2
    /\ IsImageRecord(ad_out.results[1])
    /\ ad_out.results[1].url = LinkOf("reddit", Posts[2])
    /\ ~IsImageRecord(ad_out.results[2])
    /\ ad_out.results[2].url = LinkOf("reddit", Posts[1])

\* /search has ended, having called perform_search_with_retry, which sent
\* at least one probe.
RetryRunEnded ==
    /\ s_pc \in {"done", "failed"}
    /\ enable_anti_captcha
    /\ Len(probes) >= 1

\* Every attempt of the call returned HTTP 200 with no results.
EveryAttemptEmpty ==
    /\ only_empty
    /\ ~(outcome.kind = "response" /\ outcome.status = 200
             /\ HasResults(outcome.body))

\* Every attempt of the call failed: another status, a timeout or a
\* transport error.
EveryAttemptFailed == all_failed

\* The envelope without response_time and request_id.
Visible(envelope) ==
    [k \in DOMAIN envelope \ {"response_time", "request_id"} |-> envelope[k]]

\* The envelope of a request that found nothing, without those two fields.
EmptyEnvelope ==
    [query |-> request.query, follow_up_questions |-> None, answer |-> None,
     images |-> <<>>, results |-> <<>>]

\* C20: "no results" and "upstream degraded" look the same from outside:
\* for a request, the run in which every attempt returns HTTP 200 with empty
\* results and the run in which every attempt fails (another status, a
\* timeout, a transport error) both end with the orchestrator's payload
\* {"results": []} and with the empty envelope of the request, so they agree
\* in every field but response_time and request_id.
C20_EmptyAndDegradedLookAlike ==
    (RetryRunEnded /\ (EveryAttemptEmpty \/ EveryAttemptFailed)) =>
        /\ s_pc = "done"
        /\ searxng_data = [results |-> <<>>]
        /\ Visible(response) = EmptyEnvelope

----------------------------------------------------------------------------
(* Claims on the token exchange, the rate budget and the order of steps.   *)

\* What a failed exchange raises: urlopen's URLError (no connection, a
\* timeout) and the KeyError of a reply without access_token.
EXCHANGE_FAILURES == {"URLError", "KeyError"}

\* A step in which t's exchange fails: its call ends between the exchange
\* and the assignment of line 74.
ExchangeFails(t) ==
    /\ tpc[t] \in {"exchange", "store_token"}
    /\ tpc'[t] = "idle"

\* t's call of request() has ended with a failed exchange.
RequestFailed(t) ==
    /\ tpc[t] = "idle"
    /\ tret[t].call = "request"
    /\ tret[t].exc \in EXCHANGE_FAILURES

\* A step in which u's call comes to the end of line 55, having read the
\* clock no earlier than t's call did.
LooksAtCacheAfter(u, t) ==
    /\ \/ tpc[u] = "get_token" /\ tpc'[u] \notin {"get_token", "check_expires"}
       \/ tpc[u] = "check_expires" /\ tpc'[u] # "check_expires"
    /\ tchk'[u].at >= tchk[t].at

\* C21: a failed exchange (no connection, a timeout, a reply without
\* access_token) makes request() raise instead of returning parameters and
\* leaves _token and _token_expires as they were; a reply without
\* access_token always fails; and the next call that looks at the cache the
\* failed call left attempts an exchange.
C21_ExchangeFailureRaisesAndKeepsCache ==
    [][\A t \in Callers :
          /\ ExchangeFails(t) =>
                 /\ tret'[t].call = "request"
                 /\ tret'[t].exc \in EXCHANGE_FAILURES
                 /\ DOMAIN tret'[t] \cap {"returned", "params"} = {}
                 /\ UNCHANGED tokenState
                 /\ ~tover[t] =>
                        /\ _token' = tchk[t].token
                        /\ _token_expires' = tchk[t].expires
          /\ (tpc[t] = "store_token" /\ tpc'[t] # "store_token"
                  /\ "access_token" \notin DOMAIN tdata[t]) =>
                 ExchangeFails(t)
          /\ (RequestFailed(t)
                  /\ _token = tchk[t].token
                  /\ _token_expires = tchk[t].expires) =>
                 \A u \in Callers :
                     LooksAtCacheAfter(u, t) => tpc'[u] = "exchange"]_vars

\* C21 witness: one caller's request() has raised KeyError on a reply
\* without access_token, the cache is as that call found it, and the call
\* of another caller, made after it, is at its exchange.
C21_Witness ==
    \E t \in Callers, u \in Callers :
        /\ RequestFailed(t)
        /\ tret[t].exc = "KeyError"
        /\ _token = tchk[t].token
        /\ _token_expires = tchk[t].expires
        /\ tpc[u] = "exchange"
        /\ tchk[u].at > tchk[t].at

\* Caller t takes a step of response().
ResponseStep(t) ==
    StepsIn(t, {"response", "reset_clock", "response_reset",
                "response_parse"})

\* Two calls of response() on one resp have come to the same, the list
\* returned or the exception raised: in reddit.py and sources_local.py the
\* call and the one before it; in reddit_api.py any two of the calls ended,
\* whatever the token cache and the rate budget were when each ended.
SameOutputTwice ==
    /\ (ad_pc = "done" /\ ad_prev # NoOutput) => ad_out = ad_prev
    /\ \A i, j \in 1..Len(replies) :
           replies[i].resp = replies[j].resp =>
               replies[i].out = replies[j].out

\* A step of reddit_api.py's response() in caller t changes nothing of the
\* token cache, the tokens issued, the clock and the other callers.
ResponseKeepsTheRest(t) ==
    /\ UNCHANGED <<tokenState, issued, now>>
    /\ \A u \in Callers \ {t} :
           /\ tpc'[u] = tpc[u]
           /\ tret'[u] = tret[u]
           /\ tresp'[u] = tresp[u]

CLASSIFIED == {"success", "failure"}

\* C23: within one call of perform_search_with_retry the attempts follow
\* one another and never overlap: a probe goes out only after the probe
\* before it was classified as no success; every probe but the first comes
\* right after exactly one delay, taken after the probe before it ended; the
\* first probe comes after no delay; and no delay follows the last probe or
\* a success.
C23_AttemptsSequentialWithOneDelay ==
    /\ \A i \in 1..Len(events) :
           /\ events[i] = "probe" =>
                  \/ i = 1
                  \/ /\ i >= 4
                     /\ events[i - 1] = "delay"
                     /\ events[i - 2] = "failure"
                     /\ events[i - 3] = "probe"
           /\ events[i] = "delay" =>
                  /\ i >= 3
                  /\ events[i - 1] = "failure"
                  /\ i < Len(events) => events[i + 1] = "probe"
           /\ events[i] \in CLASSIFIED => i >= 2 /\ events[i - 1] = "probe"
           /\ events[i] = "success" => i = Len(events)
    /\ pc \in {"returned", "raised"} =>
           (events # <<>> => events[Len(events)] \in CLASSIFIED)
    /\ Cardinality({i \in 1..Len(events) : events[i] = "probe"})
           = Len(probes)
    /\ \A i \in 1..Len(probes) : probes[i].attempt = i - 1

\* C23 witness: a call has ended with the success of its third probe: two
\* probes classified as no success, each followed by one delay and the next
\* probe, and nothing after the success.
C23_Witness ==
    /\ pc = "returned"
    /\ events = <<"probe", "failure", "delay", "probe", "failure", "delay",
                  "probe", "success">>

\* No response is waiting for response() or inside it.
AllResponsesProcessed ==
    \A t \in Callers :
        tpc[t] \notin {"response", "reset_clock", "response_reset",
                       "response_parse"}

\* C24: a rate budget that is stale only throttles more: when the responses
\* were processed in whatever order and the recorded remaining quota and
\* reset time differ from those of the upstream's most recent response,
\* _is_rate_limited() is true wherever it would be true on the values of
\* that most recent response.
C24_StaleBudgetNeverLiftsThrottle ==
    (observed /\ AllResponsesProcessed) =>
        (_is_rate_limited(now, up_remaining, up_reset) =>
             _is_rate_limited(now, _rate_remaining, _rate_reset))

\* shouldThrottle() on the recorded budget and the clock as they are; the
\* cached token is of no use when there is none or the clock has reached its
\* expiry.
ShouldThrottle == _rate_remaining < 50 /\ ~(now > _rate_reset)
TokenUnusable == _token = NO_TOKEN \/ ~(now < _token_expires)
InsideTokenExchange(t) == InGetToken(t)

\* C25: a call of request() that finds shouldThrottle() true ends there:
\* None is returned to its caller and nothing is raised, no parameters are
\* built, no other caller moves, the call has looked up or exchanged no
\* token (whether the cached token is usable or not), and the token cache,
\* the recorded budget and the tokens issued are not changed by any step of
\* the check; and a caller only enters the token lookup from a check that
\* found shouldThrottle() false, and the token exchange only from that
\* lookup.
C25_ThrottledCallIsASkip ==
    [][\A t \in Callers :
          /\ Throttles(t) =>
                 /\ tret'[t] = [call |-> "request", exc |-> "none",
                                returned |-> "None"]
                 /\ \A u \in Callers \ {t} :
                        tret'[u] = tret[u] /\ tpc'[u] = tpc[u]
                 /\ ~texch[t] /\ ~texch'[t]
                 /\ ttoken[t] = NO_TOKEN /\ tdata[t] = <<>>
          /\ RateCheckStep(t) =>
                 UNCHANGED <<tokenState, rateState, issued, ttoken, tdata>>
          /\ (tpc'[t] = "get_token" /\ tpc[t] # "get_token") =>
                 \/ tpc[t] = "check_reset" /\ tnow[t] > _rate_reset
                 \/ tpc[t] = "check_remaining" /\ ~(_rate_remaining < 50)
          /\ (InsideTokenExchange(t)' /\ ~InsideTokenExchange(t)) =>
                 tpc[t] = "get_token"]_vars

\* C25 witness: with the recorded window still open and the budget below
\* the floor, the cached token has expired, and caller 2's request() has
\* returned None without a token being issued after the first.
C25_Witness ==
    /\ ShouldThrottle
    /\ TokenUnusable
    /\ Len(issued) = 1
    /\ tpc[2] = "idle"
    /\ tret[2] = [call |-> "request", exc |-> "none", returned |-> "None"]

\* The response carries this rate-limit header with a finite number as its
\* value.
WellFormed(resp, header) ==
    /\ header \in DOMAIN resp.headers
    /\ PyFloat(resp.headers[header]).kind = "finite"

\* C26: the rate-limit headers of a response are applied field by field:
\* once response() has ended, a well-formed x-ratelimit-remaining value is
\* the recorded _rate_remaining and a well-formed x-ratelimit-reset value,
\* added to the clock, is the recorded _rate_reset, whatever the other
\* header of the same response is.
C26_HeadersAppliedFieldByField ==
    \A t \in Callers :
        ResponseEnded(t) =>
            /\ WellFormed(tresp[t], "x_ratelimit_remaining") =>
                   _rate_remaining =
                       IntOfFloat(tresp[t].headers.x_ratelimit_remaining).value
            /\ WellFormed(tresp[t], "x_ratelimit_reset") =>
                   _rate_reset =
                       now + IntOfFloat(tresp[t].headers.x_ratelimit_reset).value

\* reddit_api.py's response() has returned a list to caller t.
RedditApiReturned(t) == ResponseEnded(t) /\ tret[t].exc = "none"

\* The posts with a title and a permalink, in the order of the input.
UsablePost(post) == Usable("reddit_api", post)
UsablePosts(text) == SelectSeq(InputItems("reddit_api", text), UsablePost)

\* C27: the list reddit_api.py returns is made of the input children that
\* have a title and a permalink, one record for each, in the order of the
\* input: the k-th record has the url and the title of the k-th such child,
\* whether it is an image record or a text record.
C27_NestedAdapterKeepsInputOrder ==
    \A t \in Callers :
        RedditApiReturned(t) =>
            LET kept == UsablePosts(tresp[t].text)
                results == tret[t].results
            IN  /\ Len(results) = Len(kept)
                /\ \A k \in 1..Len(results) :
                       /\ results[k].url = LinkOf("reddit_api", kept[k])
                       /\ results[k].title = Field(kept[k], "title")

\* C27 witness: for a text post followed by an image post the list returned
\* holds the text record first and the image record second.
C27_Witness ==
    /\ RedditApiReturned(1)
    /\ InputItems("reddit_api", tresp[1].text) = <<Posts[1], Posts[2]>>
    /\ Len(tret[1].results) = 2
    /\ ~IsImageRecord(tret[1].results[1])
    /\ tret[1].results[1].url = LinkOf("reddit_api", Posts[1])
    /\ IsImageRecord(tret[1].results[2])
    /\ tret[1].results[2].url = LinkOf("reddit_api", Posts[2])

\* Both records have the field with the same value, or neither has it.
SameField(a, b, field) ==
    /\ (field \in DOMAIN a) = (field \in DOMAIN b)
    /\ field \in DOMAIN a => a[field] = b[field]

\* The two records follow the same per-post rules.
SameRecord(a, b) ==
    /\ a.url = b.url
    /\ IsImageRecord(a) = IsImageRecord(b)
    /\ SameField(a, b, "content")
    /\ SameField(a, b, "metadata")

\* What reddit_api.py returns for the same posts in a nested listing.
NestedOutputFor(posts) ==
    RedditApiResults([headers |-> <<>>, text |-> Decodes(NestedPayload(posts))])

\* C28: for the same posts the flat-list adapter and the nested-listing
\* adapter emit the same records up to their order: as many, and each record
\* of one has a record of the other with the same url, the same image or
\* text classification, the same content and the same metadata line, each
\* of the two present in both or absent from both.
C28_AdaptersAgreePostByPost ==
    RedditReturned =>
        LET flat == ad_out.results
            nested == NestedOutputFor(InputItems("reddit", ad_resp.text))
        IN  nested.exc = "none" =>
                /\ Len(flat) = Len(nested.results)
                /\ \A k \in 1..Len(flat) :
                       \E l \in 1..Len(nested.results) :
                           SameRecord(flat[k], nested.results[l])
                /\ \A l \in 1..Len(nested.results) :
                       \E k \in 1..Len(flat) :
                           SameRecord(flat[k], nested.results[l])

\* The fetch tasks of /search have all ended, each once.
AllJoined ==
    /\ Len(completed) = Len(urls_to_scrape)
    /\ Len(page_contents) = Len(urls_to_scrape)
    /\ \A i \in 1..Len(urls_to_scrape) :
           /\ page_contents[i] # Pending
           /\ \E k \in 1..Len(completed) : completed[k] = i

\* The results of the envelope are results of the aggregator, in the
\* aggregator's order.
InAggregatorOrder(results, aggregated) ==
    \E f \in [1..Len(results) -> 1..Len(aggregated)] :
        /\ \A k, l \in 1..Len(results) : k < l => f[k] < f[l]
        /\ \A k \in 1..Len(results) :
               /\ HasUrl(aggregated[f[k]])
               /\ results[k].url = aggregated[f[k]].url
               /\ results[k].title = Get(aggregated[f[k]], "title", "")

\* C29: while the fetches run there is one task for each url to scrape, and
\* the envelope is assembled only when all of them have ended; in whatever
\* order they ended, the envelope lists results of the aggregator in the
\* aggregator's order, and a raw_content in it is the text a fetch task
\* gave for the url of that very result.
C29_ContentsJoinedAndMatchedByUrl ==
    /\ s_pc = "gather" =>
           /\ Len(page_contents) = Len(urls_to_scrape)
           /\ \A k \in 1..Len(completed) :
                  page_contents[completed[k]] # Pending
    /\ (s_pc \in {"assemble", "done"} /\ urls_to_scrape # <<>>) => AllJoined
    /\ s_pc = "done" =>
           /\ InAggregatorOrder(response.results,
                                Get(searxng_data, "results", <<>>))
           /\ \A k \in 1..Len(response.results) :
                  LET res == response.results[k]
                  IN  res.raw_content # None =>
                          \E i \in 1..Len(urls_to_scrape) :
                              /\ urls_to_scrape[i] = res.url
                              /\ IsContent(page_contents[i])
                              /\ res.raw_content = page_contents[i].text

\* C29 witness: the fetch for the second of two urls ended before the fetch
\* for the first; the envelope lists the two results in the aggregator's
\* order, each with the text fetched for its own url.
C29_Witness ==
    /\ s_pc = "done"
    /\ completed = <<2, 1>>
    /\ urls_to_scrape[1] # urls_to_scrape[2]
    /\ Len(response.results) = 2
    /\ response.results[1].url = urls_to_scrape[1]
    /\ response.results[1].raw_content = page_contents[1].text
    /\ response.results[2].url = urls_to_scrape[2]
    /\ response.results[2].raw_content = page_contents[2].text
    /\ response.results[1].raw_content # response.results[2].raw_content
    /\ IsContent(page_contents[1])
    /\ IsContent(page_contents[2])

\* The engine identifiers of an engine set, as the aggregator reads them.
EngineIds(engines_) == Split(engines_, ",")

\* C30: the engine set of every probe sent to the aggregator names no
\* engine twice, whether it is the caller's own set after the reddit
\* rewrite, the smart selection or an entry of the fallback table.
C30_ProbeEnginesWithoutDuplicates ==
    \A p \in 1..Len(probes) :
        LET ids == EngineIds(probes[p].params.engines)
        IN  \A i, j \in 1..Len(ids) : i # j => ids[i] # ids[j]

-----------------------------------------------------------------------------
(* Claims on the envelope, the reddit rewrite, the governor's frame and    *)
(* the end of the retry loop.                                              *)

\* C31: every result of the envelope /search returns has a non-empty url
\* and a non-empty title; a result of the aggregator that lacks either is
\* not in the envelope.
C31_EnvelopeResultsHaveUrlAndTitle ==
    s_pc = "done" =>
        \A k \in 1..Len(response.results) :
            /\ response.results[k].url # ""
            /\ response.results[k].title # ""

\* The engine set names the engine "reddit".
NamesReddit(engines_) ==
    Truthy(engines_) /\ InList(StrippedEngineList(engines_), REDDIT)

\* What C32 says of the parameters of a probe sent for a caller's query and
\* engines.
RedditRewritten(params, caller_query, caller_engines) ==
    /\ ~NamesReddit(params.engines)
    /\ ~InList(EngineIds(params.engines), REDDIT)
    /\ NamesReddit(caller_engines) =>
           /\ params.engines # <<>>
           /\ InList(EngineIds(params.engines), GOOGLE)
           /\ Contains(params.q, SITE_REDDIT)
           /\ params.q = IF Contains(caller_query, SITE_REDDIT)
                         THEN caller_query
                         ELSE SITE_REDDIT \o <<" ">> \o caller_query
           /\ _rewrite_reddit_to_google(params.q, params.engines)
                  = [query |-> params.q, engines |-> params.engines]

\* C32: no probe, of perform_search_with_retry or of perform_simple_search,
\* names the engine "reddit"; and when the caller's engines named it, every
\* probe of the call has a non-empty engine set with "google" in it and
\* the caller's query with "site:reddit.com " put before it once (the query
\* itself when it holds "site:reddit.com" already), and the rewrite applied
\* to the query and engines of the probe gives them back.
C32_NoProbeNamesReddit ==
    /\ \A p \in 1..Len(probes) :
           RedditRewritten(probes[p].params, arg_query, arg_engines)
    /\ simple_probe # <<>> =>
           RedditRewritten(simple_probe, request.query, request.engines)

\* C32 witness: a caller asked for "brave, reddit"; /search has ended after
\* a second probe of perform_search_with_retry, sent to "google,brave" with
\* "site:reddit.com " before the query.
C32_Witness ==
    /\ s_pc = "done"
    /\ request.engines = <<"b","r","a","v","e",","," ","r","e","d","d","i","t">>
    /\ request.query = <<"p","i","z","z","a">>
    /\ Len(probes) = 2
    /\ probes[2].params.engines
           = <<"g","o","o","g","l","e",",","b","r","a","v","e">>
    /\ probes[2].params.q
           = SITE_REDDIT \o <<" ">> \o <<"p","i","z","z","a">>

\* Caller t takes a step of the two assignments of _get_token() after an
\* exchange that gave a token.
StoreStep(t) ==
    /\ StepsIn(t, {"store_token", "store_expiry"})
    /\ texch[t]
    /\ "access_token" \in DOMAIN tdata[t]

\* C33: in every step of the callers of request() and response() and of
\* the clock, _rate_remaining and _rate_reset change only in a step of
\* response(); _token and _token_expires change only in the two assignments
\* that follow an exchange of _get_token() that gave a token; the steps in
\* which request() evaluates _is_rate_limited() change none of the four,
\* and no step of response() changes _token or _token_expires.
C33_GovernorFrame ==
    [][/\ rateState' # rateState =>
              \E t \in Callers :
                  StepsIn(t, {"response", "response_reset"})
       /\ tokenState' # tokenState => \E t \in Callers : StoreStep(t)
       /\ (\E t \in Callers : RateCheckStep(t)) =>
              UNCHANGED <<tokenState, rateState>>
       /\ (\E t \in Callers : ResponseStep(t)) => UNCHANGED tokenState]_vars

\* C33 witness: a token was exchanged and stored, a response has recorded a
\* budget and a later call of request() was throttled, with the token and
\* the budget as they were left.
C33_Witness ==
    /\ observed
    /\ _token # NO_TOKEN
    /\ _rate_remaining # INITIAL_RATE_REMAINING
    /\ _rate_reset # INITIAL_RATE_RESET
    /\ ncalls >= 2
    /\ \E t \in Callers :
           /\ tpc[t] = "idle"
           /\ tret[t] = [call |-> "request", exc |-> "none",
                         returned |-> "None"]

\* How many of the events of the call are of this kind.
CountOf(kind) == Cardinality({k \in 1..Len(events) : events[k] = kind})

\* The probes and delays of the call stay within max_retries probes and
\* max_retries - 1 delays, none when max_retries is not positive.
WithinRetryBudget ==
    /\ Len(probes) <= (IF max_retries > 0 THEN max_retries ELSE 0)
    /\ CountOf("probe") = Len(probes)
    /\ CountOf("delay") <= (IF max_retries > 0 THEN max_retries - 1 ELSE 0)

\* C34: perform_search_with_retry always comes to Success or Exhausted: a
\* call that has not returned can take its next step and has not raised,
\* its probes and delays stay within max_retries and max_retries - 1, and
\* with max_retries <= 0 it returns the empty payload without a probe.
C34_EndsInSuccessOrExhausted ==
    /\ pc # "returned" => (pc # "raised" /\ ENABLED Next)
    /\ WithinRetryBudget
    /\ (pc = "returned" /\ max_retries <= 0) =>
           (probes = <<>> /\ ret = [results |-> <<>>])

============================================================================
